---- MODULE Spec2Model ----
\* Model of the simple-journal web application (journal-web): the passcode
\* gate (api/auth/set, api/auth/verify), the session cookie (lib/auth.ts),
\* the per-category title counter (lib/journal.ts), the entry, prompt and
\* admin route handlers, and the seed script.
\*
\* Every route handler is a short asynchronous function.  The model gives one
\* action to each stretch of a handler that runs between two accesses to the
\* database (or the external generation service): a stretch that only works
\* on the request's own data is folded into the database access that follows
\* it, so every interleaving of the real handlers is an interleaving here.
EXTENDS Integers, Sequences, FiniteSets, TLC

VARIABLES
    users,            \* table User:            id -> [passcodeHash]
    counters,         \* table EntryCounter:    entryType -> counter, or Absent
    entries,          \* table JournalEntry:    rows in creation order
    gratitudePrompts, \* table GratitudePrompt: id -> [isActive, createdAt]
    personas,         \* table CreativePersona: id -> [isActive, order, createdAt]
    creativePrompts,  \* table CreativePrompt:  rows in creation order
    ollamaCalls,      \* number of requests sent to the generation service
    cookie,           \* each browser's sj_session cookie
    req,              \* the requests: inputs, position, locals, response
    seed              \* the seed script: position and locals

vars == <<users, counters, entries, gratitudePrompts, personas,
          creativePrompts, ollamaCalls, cookie, req, seed>>

-----------------------------------------------------------------------------
\* Bounds of the model.

\* Concurrent entry-creation requests (specification Spec).
MaxCreateReq == 3
\* Entry-creation requests over the full set of request bodies (SpecCreate).
MaxBodyReq == 1
\* Passcode requests (SpecAuth).
MaxAuthReq == 2
\* Requests of the session-gate specification (SpecGate).
MaxGateReq == 2
\* Generation and persona-toggle requests (SpecGenerate, SpecGenerateLive).
MaxGenReq == 2
\* Read requests (SpecRead)
MaxReadReq == 2
\* Random-prompt and toggle requests (SpecPrompts)
MaxPromptReq == 2
\* Sign-in and probe requests (SpecSession)
MaxSessionReq == 3
\* Creation requests beside the seed script (SpecSeed)
MaxSeedReq == 2
\* Set-passcode and status requests (SpecStatus)
MaxStatusReq == 3
\* List requests with any query (SpecQuery)
MaxQueryReq == 2
\* Creations in flight together when titles are issued from assorted counters.
MaxTitleReq == 3
\* Requests of two users who create and read entries.
MaxOwnerReq == 3
\* History requests the preview sends, and the pages the archive fills.
MaxFetches == 6
MaxHistoryPages == 2
\* Submissions of the passcode form.
MaxSubmits == 3

-----------------------------------------------------------------------------
\* JavaScript values.  A string is a sequence of characters, wrapped so that
\* it can stand next to null and undefined.

Undefined == [t |-> "undefined"]
Null == [t |-> "null"]
Str(s) == [t |-> "string", v |-> s]
Enum(name) == [t |-> "enum", v |-> name]
\* A member that an object literal inherits from Object.prototype.
ProtoMember == [t |-> "object"]

IsString(x) == x.t = "string"

\* JavaScript truthiness, for the values above.
Truthy(x) ==
    CASE x.t \in {"undefined", "null"} -> FALSE
      [] x.t = "string" -> x.v # <<>>
      [] OTHER -> TRUE

Whitespace == {" ", "\t", "\n", "\r"}

RECURSIVE TrimStart(_)
TrimStart(s) ==
    IF s # <<>> /\ Head(s) \in Whitespace THEN TrimStart(Tail(s)) ELSE s

RECURSIVE TrimEnd(_)
TrimEnd(s) ==
    IF s # <<>> /\ s[Len(s)] \in Whitespace
    THEN TrimEnd(SubSeq(s, 1, Len(s) - 1))
    ELSE s

\* String.prototype.trim
Trim(s) == TrimEnd(TrimStart(s))

UpperLetters == <<"A", "C", "E", "G", "I", "N", "O", "R", "S", "T", "U", "V">>
LowerLetters == <<"a", "c", "e", "g", "i", "n", "o", "r", "s", "t", "u", "v">>

LowerChar(c) ==
    IF \E i \in 1..Len(UpperLetters) : UpperLetters[i] = c
    THEN LowerLetters[CHOOSE i \in 1..Len(UpperLetters) : UpperLetters[i] = c]
    ELSE c

\* String.prototype.toLowerCase
ToLowerCase(s) == [i \in 1..Len(s) |-> LowerChar(s[i])]

DigitChars == <<"0", "1", "2", "3", "4", "5", "6", "7", "8", "9">>

\* Number.prototype.toString, for a non-negative integer.
RECURSIVE NumberToString(_)
NumberToString(n) ==
    IF n < 10 THEN <<DigitChars[n + 1]>>
    ELSE NumberToString(n \div 10) \o <<DigitChars[(n % 10) + 1]>>

\* Faulty variant of padStart: it cuts the string down to the target length.
PadStartTruncating(s, targetLength, ch) ==
    LET padded == [i \in 1..targetLength |-> ch] \o s
    IN SubSeq(padded, Len(padded) - targetLength + 1, Len(padded))

\* String.prototype.padStart
PadStart(s, targetLength, ch) ==
    IF Len(s) >= targetLength THEN s
    ELSE [i \in 1..(targetLength - Len(s)) |-> ch] \o s

-----------------------------------------------------------------------------
\* lib/auth.ts: the session cookie.

NoCookie == [t |-> "none"]
\* A cookie whose value is not a token signed with JWT_SECRET.
ForgedCookie == [t |-> "forged", sub |-> "u1"]
\* A cookie whose value is no token at all.
MalformedCookie == [t |-> "malformed"]

\* The validity of a token, in seconds.
SESSION_MAX_AGE == 60 * 60 * 24 * 180

\* setSessionCookie: a token signed for userId, issued now (age is the time
\* since, in seconds) and expiring SESSION_MAX_AGE later.
SessionToken(userId) == [t |-> "jwt", sub |-> userId, age |-> 0]

NoSession == "no-session"

\* What jwtVerify does with a token it refuses.
JwtThrows == [t |-> "throws"]

\* A faulty variant: the expiry of the token is not looked at.
JwtVerifyNoExpiry(token) ==
    IF token.t = "jwt" THEN [t |-> "payload", sub |-> token.sub] ELSE JwtThrows

\* jwtVerify(token, secret): the payload of a token that was signed with the
\* secret and whose expiry is still ahead; it throws for any other value.
JwtVerify(token) ==
    IF token.t = "jwt" /\ token.age < SESSION_MAX_AGE
    THEN [t |-> "payload", sub |-> token.sub]
    ELSE JwtThrows

\* Faulty variant: the token is decoded without its signature being checked.
GetSessionUserIdUnverified(ck) ==
    IF ck.t \in {"jwt", "forged"} THEN ck.sub ELSE NoSession

\* getSessionUserId: null without a cookie; else the sub of the verified
\* payload, or null when jwtVerify throws (the catch).
GetSessionUserId(ck) ==
    IF ck = NoCookie THEN NoSession
    ELSE LET result == JwtVerify(ck)
         IN IF result = JwtThrows THEN NoSession ELSE result.sub

Clients == {"c1", "c2"}

-----------------------------------------------------------------------------
\* lib/journal.ts: categories, emoji tags and the title counter.

EntryTypes == {"ANGER", "GRATITUDE", "CREATIVE"}

ENTRY_EMOJI(entryType) ==
    CASE entryType = "ANGER" -> "emoji-anger"
      [] entryType = "GRATITUDE" -> "emoji-gratitude"
      [] entryType = "CREATIVE" -> "emoji-creative"

\* The lower-case names of the members every object literal inherits.
ObjectPrototypeKeys == { <<"c","o","n","s","t","r","u","c","t","o","r">>,
                         <<"_","_","p","r","o","t","o","_","_">> }

\* ENTRY_SLUG_TO_ENUM[slug]: a property lookup on an object literal, which
\* finds the three own properties and also the inherited members.
ENTRY_SLUG_TO_ENUM(slug) ==
    CASE slug = <<"a","n","g","e","r">> -> Enum("ANGER")
      [] slug = <<"g","r","a","t","i","t","u","d","e">> -> Enum("GRATITUDE")
      [] slug = <<"c","r","e","a","t","i","v","e">> -> Enum("CREATIVE")
      [] slug \in ObjectPrototypeKeys -> ProtoMember
      [] OTHER -> Undefined

Absent == -1

\* Faulty variant of the upsert: an existing row is written back unchanged.
EntryCounterUpsertLost(ctrs, entryType) ==
    IF ctrs[entryType] = Absent
    THEN [ctrs EXCEPT ![entryType] = 1]
    ELSE ctrs

\* prisma.entryCounter.upsert({where: {entryType}, create: {counter: 1},
\* update: {counter: {increment: 1}}}): one statement of the database.
EntryCounterUpsert(ctrs, entryType) ==
    IF ctrs[entryType] = Absent
    THEN [ctrs EXCEPT ![entryType] = 1]
    ELSE [ctrs EXCEPT ![entryType] = @ + 1]

\* padStart(3, "0")
TITLE_PAD == 3

\* The title nextEntryTitle returns for the counter value it got.
FormatTitle(entryType, counter) ==
    <<ENTRY_EMOJI(entryType), " ">> \o PadStart(NumberToString(counter), TITLE_PAD, "0")

-----------------------------------------------------------------------------
\* api/auth: the stored passcode hash.

\* argon2.hash: a salted hash; the salt is fresh for every call.
Argon2Hash(passcode, salt) == [t |-> "hash", salt |-> salt, pw |-> passcode]

\* Faulty variant of argon2.verify: it accepts every candidate.
Argon2VerifyAny(hash, passcode) == hash.t = "hash"

\* argon2.verify
Argon2Verify(hash, passcode) == hash.t = "hash" /\ hash.pw = passcode

-----------------------------------------------------------------------------
\* api/entries: POST, the creation of an entry.

Idle == [op |-> "none", pc |-> "idle"]

\* A request takes the lowest free slot.
FreeSlot(r) == req[r] = Idle /\ \A q \in 1..(r - 1) : req[q] # Idle

\* entryType of the handler: body.entryType?.toLowerCase() looked up in
\* ENTRY_SLUG_TO_ENUM, undefined when the slug is missing or empty.
ParseEntryType(body) ==
    LET entryTypeSlug == IF IsString(body.entryType)
                         THEN Str(ToLowerCase(body.entryType.v))
                         ELSE Undefined
    IN IF Truthy(entryTypeSlug) THEN ENTRY_SLUG_TO_ENUM(entryTypeSlug.v)
       ELSE Undefined

\* Faulty variant: it keeps the reason whatever the category.
NormalizeAngerReasonAny(entryType, body) ==
    IF IsString(body.angerReason) THEN Str(Trim(body.angerReason.v)) ELSE Null

NormalizeAngerReason(entryType, body) ==
    IF entryType = "ANGER" /\ IsString(body.angerReason)
    THEN Str(Trim(body.angerReason.v))
    ELSE Null

NormalizeBodyMarkdown(body) ==
    IF IsString(body.bodyMarkdown) THEN body.bodyMarkdown ELSE Str(<<>>)

NormalizeGratitudePromptId(entryType, body) ==
    IF entryType = "GRATITUDE" /\ Truthy(body.gratitudePromptId)
    THEN body.gratitudePromptId
    ELSE Null

NormalizeCreativePromptId(entryType, body) ==
    IF entryType = "CREATIVE" /\ Truthy(body.creativePromptId)
    THEN body.creativePromptId
    ELSE Null

\* Faulty variant: a userId member of the body names the owner.
EntryDataOwnerFromBody(userId, entryType, title, body) ==
    [ userId |-> IF "userId" \in DOMAIN body THEN body.userId.v[1] ELSE userId,
      entryType |-> entryType,
      title |-> title,
      bodyMarkdown |-> NormalizeBodyMarkdown(body),
      angerReason |-> NormalizeAngerReason(entryType, body),
      gratitudePromptId |-> NormalizeGratitudePromptId(entryType, body),
      creativePromptId |-> NormalizeCreativePromptId(entryType, body) ]

\* The data object handed to prisma.journalEntry.create.
EntryData(userId, entryType, title, body) ==
    [ userId |-> userId,
      entryType |-> entryType,
      title |-> title,
      bodyMarkdown |-> NormalizeBodyMarkdown(body),
      angerReason |-> NormalizeAngerReason(entryType, body),
      gratitudePromptId |-> NormalizeGratitudePromptId(entryType, body),
      creativePromptId |-> NormalizeCreativePromptId(entryType, body) ]

CreativePromptIds == { creativePrompts[i].id : i \in 1..Len(creativePrompts) }

\* The foreign keys of table JournalEntry: the insert is refused when the
\* user, the gratitude prompt or the creative prompt it names does not exist.
ForeignKeysHold(data) ==
    /\ data.userId \in DOMAIN users
    /\ data.gratitudePromptId = Null
         \/ data.gratitudePromptId.v \in DOMAIN gratitudePrompts
    /\ data.creativePromptId = Null
         \/ data.creativePromptId.v \in CreativePromptIds

CreateResponse(r, c, body, userId, status) ==
    [ op |-> "createEntry", pc |-> "done", client |-> c, cookie |-> cookie[c],
      body |-> body, userId |-> userId, entryType |-> ParseEntryType(body),
      title |-> <<>>, data |-> Null, status |-> status ]

\* POST /api/entries up to and including nextEntryTitle: the session check,
\* the validation of entryType and the upsert of the counter.
PostEntriesBegin(r, c, body) ==
    /\ FreeSlot(r)
    /\ LET userId == GetSessionUserId(cookie[c])
           entryType == ParseEntryType(body)
       IN IF userId = NoSession
          THEN /\ req' = [req EXCEPT ![r] = CreateResponse(r, c, body, userId, 401)]
               /\ UNCHANGED counters
          ELSE IF ~Truthy(entryType)
          THEN /\ req' = [req EXCEPT ![r] = CreateResponse(r, c, body, userId, 400)]
               /\ UNCHANGED counters
          ELSE IF entryType.t # "enum"
          \* Prisma refuses a where clause whose entryType is no enum value:
          \* nextEntryTitle throws before any statement is sent.
          THEN /\ req' = [req EXCEPT ![r] = CreateResponse(r, c, body, userId, 500)]
               /\ UNCHANGED counters
          ELSE LET after == EntryCounterUpsert(counters, entryType.v)
                   title == FormatTitle(entryType.v, after[entryType.v])
               IN /\ counters' = after
                  /\ req' = [req EXCEPT ![r] =
                        [ CreateResponse(r, c, body, userId, 0) EXCEPT
                            !.pc = "persist",
                            !.title = title,
                            !.data = EntryData(userId, entryType.v, title, body) ]]
    /\ UNCHANGED <<users, entries, gratitudePrompts, personas, creativePrompts,
                   ollamaCalls, cookie, seed>>

\* POST /api/entries from prisma.journalEntry.create to the response.
PostEntriesPersist(r) ==
    /\ req[r].op = "createEntry"
    /\ req[r].pc = "persist"
    /\ IF ForeignKeysHold(req[r].data)
       THEN /\ entries' = Append(entries,
                    [ id |-> Len(entries) + 1 ] @@ req[r].data)
            /\ req' = [req EXCEPT ![r].pc = "done", ![r].status = 201]
       ELSE /\ req' = [req EXCEPT ![r].pc = "done", ![r].status = 500]
            /\ UNCHANGED entries
    /\ UNCHANGED <<users, counters, gratitudePrompts, personas, creativePrompts,
                   ollamaCalls, cookie, seed>>

-----------------------------------------------------------------------------
\* The database after `prisma migrate deploy`, with or without a seed run.

\* The rows the seed script makes, in the order of its arrays
\* GRATITUDE_PROMPTS and CREATIVE_PERSONAS.  A row is known by its id; the
\* unique promptText of a prompt and the unique name of a persona stand in
\* one-to-one relation with the id.
GRATITUDE_PROMPTS == <<<<"g","1">>, <<"g","2">>>>
CREATIVE_PERSONAS == <<<<"p","1">>, <<"p","2">>>>

SeedPromptIds == { GRATITUDE_PROMPTS[i] : i \in 1..Len(GRATITUDE_PROMPTS) }
SeedPersonaIds == { CREATIVE_PERSONAS[i] : i \in 1..Len(CREATIVE_PERSONAS) }

SeedIndex(list, id) == CHOOSE i \in 1..Len(list) : list[i] = id

\* A CreativePrompt row stored by an earlier generation.
StoredCreativePrompt ==
    [ id |-> <<"c","1">>, personasUsed |-> CREATIVE_PERSONAS,
      promptText |-> Str(<<"t">>), usedFallback |-> FALSE ]

SeedIdle == [pc |-> "idle", i |-> 1, userCount |-> 0]

Catalog(seeded) ==
    /\ counters = [e \in EntryTypes |-> IF seeded THEN 0 ELSE Absent]
    /\ gratitudePrompts =
         [id \in (IF seeded THEN SeedPromptIds ELSE {}) |->
             [isActive |-> TRUE, createdAt |-> SeedIndex(GRATITUDE_PROMPTS, id)]]
    /\ personas =
         [id \in (IF seeded THEN SeedPersonaIds ELSE {}) |->
             [isActive |-> TRUE, order |-> SeedIndex(CREATIVE_PERSONAS, id) - 1,
              createdAt |-> SeedIndex(CREATIVE_PERSONAS, id)]]
    /\ creativePrompts = IF seeded THEN <<StoredCreativePrompt>> ELSE <<>>

\* One user whose passcode is set; browser c1 holds a session, c2 none.
Unlocked ==
    /\ users = ("u1" :> [passcodeHash |-> Argon2Hash(<<"1","2","3","4">>, 0)])
    /\ cookie = [c \in Clients |-> IF c = "c1" THEN SessionToken("u1")
                                   ELSE NoCookie]

-----------------------------------------------------------------------------
\* Specification Spec: concurrent creations of entries.

Body(entryType, bodyMarkdown, angerReason, gratitudePromptId, creativePromptId) ==
    [ entryType |-> entryType, bodyMarkdown |-> bodyMarkdown,
      angerReason |-> angerReason, gratitudePromptId |-> gratitudePromptId,
      creativePromptId |-> creativePromptId ]

\* Request bodies of the concurrent runs: each category, a gratitude entry
\* naming a seeded prompt, and one naming a prompt that does not exist.
RaceBodies ==
    { Body(Str(<<"a","n","g","e","r">>), Undefined, Undefined, Undefined, Undefined),
      Body(Str(<<"c","r","e","a","t","i","v","e">>), Undefined, Undefined, Undefined, Undefined),
      Body(Str(<<"g","r","a","t","i","t","u","d","e">>), Undefined, Undefined,
           Str(<<"g","1">>), Undefined),
      Body(Str(<<"g","r","a","t","i","t","u","d","e">>), Undefined, Undefined,
           Str(<<"g","x">>), Undefined) }

Init ==
    /\ \E seeded \in BOOLEAN : Catalog(seeded)
    /\ Unlocked
    /\ entries = <<>>
    /\ ollamaCalls = 0
    /\ req = [r \in 1..MaxCreateReq |-> Idle]
    /\ seed = SeedIdle

Next ==
    \/ \E r \in DOMAIN req, c \in Clients, body \in RaceBodies :
          PostEntriesBegin(r, c, body)
    \/ \E r \in DOMAIN req : PostEntriesPersist(r)

Spec == Init /\ [][Next]_vars

-----------------------------------------------------------------------------
\* Properties of the title counter (specification Spec).

\* The decimal number a title ends in (after the emoji and the space).
RECURSIVE DigitsValue(_)
DigitsValue(ds) ==
    IF ds = <<>> THEN 0
    ELSE 10 * DigitsValue(SubSeq(ds, 1, Len(ds) - 1))
         + (CHOOSE d \in 0..9 : DigitChars[d + 1] = ds[Len(ds)])

TitleNumber(title) == DigitsValue(SubSeq(title, 3, Len(title)))

\* The creation requests that were handed a title by nextEntryTitle.
Titled == { r \in DOMAIN req : req[r].op = "createEntry" /\ req[r].title # <<>> }

\* The creation requests answered 201 with the stored entry.
Created(entryType) ==
    { r \in Titled : req[r].status = 201 /\ req[r].data.entryType = entryType }

InFlight == { r \in DOMAIN req : req[r].pc \notin {"idle", "done"} }

CounterValue(entryType) ==
    IF counters[entryType] = Absent THEN 0 ELSE counters[entryType]

Stored(entryType) ==
    { i \in 1..Len(entries) : entries[i].entryType = entryType }

\* C1: under any interleaving of creation requests, no two requests of the
\* same category are handed the same counter value: their titles carry
\* distinct numbers.
C1_DistinctCounterValues ==
    \A r1, r2 \in Titled :
        (r1 # r2 /\ req[r1].data.entryType = req[r2].data.entryType)
            => /\ TitleNumber(req[r1].title) # TitleNumber(req[r2].title)
               /\ req[r1].title # req[r2].title

\* Two creative creations are in flight together, with no entry stored yet,
\* holding the titles 001 and 002.
C1_Witness ==
    \E r1, r2 \in Titled :
        /\ req[r1].pc = "persist" /\ req[r2].pc = "persist"
        /\ entries = <<>>
        /\ req[r1].title = <<"emoji-creative", " ", "0", "0", "1">>
        /\ req[r2].title = <<"emoji-creative", " ", "0", "0", "2">>

\* C2: whenever no creation is in flight, the counter of each category is
\* its initial value (zero, or no row) plus the number of entries stored in
\* that category.
C2_CounterCountsEntries ==
    InFlight = {} =>
        \A e \in EntryTypes : CounterValue(e) = Cardinality(Stored(e))

\* C3: whenever no creation is in flight, the numbers of the titles returned
\* by the N successful creations of a category are exactly k+1 .. k+N, where
\* k is the counter before the run (zero, or no row).
C3_TitlesContiguous ==
    InFlight = {} =>
        \A e \in EntryTypes :
            { TitleNumber(req[r].title) : r \in Created(e) }
                = 1..Cardinality(Created(e))

-----------------------------------------------------------------------------
\* Specification SpecCreate: creations over the full set of request bodies.

EntryTypeInputs ==
    { Undefined,
      Str(<<>>),
      Str(<<"a","n","g","e","r">>),
      Str(<<"A","N","G","E","R">>),
      Str(<<"G","r","a","t","i","t","u","d","e">>),
      Str(<<"C","R","E","A","T","I","V","E">>),
      Str(<<" ","a","n","g","e","r">>),
      Str(<<"u","n","k","n","o","w","n">>),
      Str(<<"c","o","n","s","t","r","u","c","t","o","r">>) }

AllBodies ==
    { Body(et, md, ar, gp, cp) :
        et \in EntryTypeInputs,
        md \in { Undefined, Str(<<"t">>) },
        ar \in { Undefined, Str(<<"r"," ">>) },
        gp \in { Undefined, Str(<<"g","1">>) },
        cp \in { Undefined, Str(<<"c","1">>) } }

InitCreate ==
    /\ \E seeded \in BOOLEAN : Catalog(seeded)
    /\ Unlocked
    /\ entries = <<>>
    /\ ollamaCalls = 0
    /\ req = [r \in 1..MaxBodyReq |-> Idle]
    /\ seed = SeedIdle

NextCreate ==
    \/ \E r \in DOMAIN req, c \in Clients, body \in AllBodies :
          PostEntriesBegin(r, c, body)
    \/ \E r \in DOMAIN req : PostEntriesPersist(r)

SpecCreate == InitCreate /\ [][NextCreate]_vars

\* C9: in every stored entry, angerReason is non-null only in category
\* ANGER, gratitudePromptId only in GRATITUDE and creativePromptId only in
\* CREATIVE, whatever the request body supplied.
C9_AuxFieldsMatchCategory ==
    \A i \in 1..Len(entries) :
        /\ entries[i].angerReason # Null => entries[i].entryType = "ANGER"
        /\ entries[i].gratitudePromptId # Null => entries[i].entryType = "GRATITUDE"
        /\ entries[i].creativePromptId # Null => entries[i].entryType = "CREATIVE"

\* An entry was stored from a body that supplied all three auxiliary fields,
\* and the two that do not belong to its category were nulled.
C9_Witness ==
    \E r \in DOMAIN req :
        /\ req[r].op = "createEntry" /\ req[r].status = 201
        /\ IsString(req[r].body.angerReason)
        /\ Truthy(req[r].body.gratitudePromptId)
        /\ Truthy(req[r].body.creativePromptId)
        /\ \E i \in 1..Len(entries) :
              /\ entries[i].title = req[r].title
              /\ entries[i].entryType = "GRATITUDE"
              /\ entries[i].gratitudePromptId = Str(<<"g","1">>)
              /\ entries[i].angerReason = Null
              /\ entries[i].creativePromptId = Null

CategorySlugs ==
    [ ANGER |-> <<"a","n","g","e","r">>,
      GRATITUDE |-> <<"g","r","a","t","i","t","u","d","e">>,
      CREATIVE |-> <<"c","r","e","a","t","i","v","e">> ]

\* x is a string that equals the slug of category e when case is ignored.
NamesCategory(x, e) ==
    /\ IsString(x)
    /\ Len(x.v) = Len(CategorySlugs[e])
    /\ \A i \in 1..Len(x.v) : LowerChar(x.v[i]) = CategorySlugs[e][i]

\* C10: an authenticated creation passes validation if and only if its
\* entryType names one of the three categories, case ignored, and then the
\* category it works with is the canonical enum value; every other entryType
\* (or none) is answered 400, with no counter incremented and no entry made.
C10_EntryTypeValidated ==
    \A r \in DOMAIN req :
        (req[r].op = "createEntry" /\ req[r].pc = "done"
                /\ req[r].userId # NoSession) =>
            /\ \A e \in EntryTypes :
                  NamesCategory(req[r].body.entryType, e) =>
                      /\ req[r].status # 400
                      /\ req[r].data.entryType = e
            /\ (\A e \in EntryTypes : ~NamesCategory(req[r].body.entryType, e)) =>
                  /\ req[r].status = 400
                  /\ req[r].title = <<>>

-----------------------------------------------------------------------------
\* prisma/seed.ts: main().  The script runs beside the web application; each
\* of its statements is one step.

EntryTypeOrder == <<"ANGER", "GRATITUDE", "CREATIVE">>
\* Ids of new User rows, in the order they are handed out.
UserIds == <<"u1", "u2", "u3", "u4", "u5", "u6">>
NewUserId == UserIds[Cardinality(DOMAIN users) + 1]

SeedReady == [pc |-> "counters", i |-> 1, userCount |-> 0]

\* A faulty variant: the counter of the category starts again at zero.
SeedCounterUpsertReset(ctrs, entryType) == [ctrs EXCEPT ![entryType] = 0]

\* entryCounter.upsert({where: {entryType}, create: {entryType}, update: {}}):
\* a new row has the default counter 0, a row that exists is left as it is.
SeedCounterUpsert(ctrs, entryType) ==
    IF ctrs[entryType] = Absent THEN [ctrs EXCEPT ![entryType] = 0] ELSE ctrs

\* The upsert of the counter row, for each category.
SeedEntryCounter ==
    /\ seed.pc = "counters"
    /\ counters' = SeedCounterUpsert(counters, EntryTypeOrder[seed.i])
    /\ seed' = IF seed.i < Len(EntryTypeOrder)
               THEN [seed EXCEPT !.i = @ + 1]
               ELSE [seed EXCEPT !.pc = "userCount", !.i = 1]
    /\ UNCHANGED <<users, entries, gratitudePrompts, personas, creativePrompts,
                   ollamaCalls, cookie, req>>

\* const userCount = await prisma.user.count()
SeedUserCount ==
    /\ seed.pc = "userCount"
    /\ seed' = [seed EXCEPT !.userCount = Cardinality(DOMAIN users),
                            !.pc = IF Cardinality(DOMAIN users) = 0
                                   THEN "userCreate" ELSE "prompts"]
    /\ UNCHANGED <<users, counters, entries, gratitudePrompts, personas,
                   creativePrompts, ollamaCalls, cookie, req>>

\* if (userCount === 0) await prisma.user.create({data: {}})
SeedUserCreate ==
    /\ seed.pc = "userCreate"
    /\ users' = (NewUserId :> [passcodeHash |-> Null]) @@ users
    /\ seed' = [seed EXCEPT !.pc = "prompts"]
    /\ UNCHANGED <<counters, entries, gratitudePrompts, personas,
                   creativePrompts, ollamaCalls, cookie, req>>

\* gratitudePrompt.upsert({update: {isActive: true}, create: {..., isActive: true}})
SeedGratitudePrompt ==
    /\ seed.pc = "prompts"
    /\ LET id == GRATITUDE_PROMPTS[seed.i]
       IN gratitudePrompts' =
            IF id \in DOMAIN gratitudePrompts
            THEN [gratitudePrompts EXCEPT ![id].isActive = TRUE]
            ELSE (id :> [isActive |-> TRUE,
                         createdAt |-> Cardinality(DOMAIN gratitudePrompts) + 1])
                 @@ gratitudePrompts
    /\ seed' = IF seed.i < Len(GRATITUDE_PROMPTS)
               THEN [seed EXCEPT !.i = @ + 1]
               ELSE [seed EXCEPT !.pc = "personas", !.i = 1]
    /\ UNCHANGED <<users, counters, entries, personas, creativePrompts,
                   ollamaCalls, cookie, req>>

\* creativePersona.upsert({update: {..., isActive: true}, create: {..., isActive: true}})
SeedCreativePersona ==
    /\ seed.pc = "personas"
    /\ LET id == CREATIVE_PERSONAS[seed.i]
       IN personas' =
            IF id \in DOMAIN personas
            THEN [personas EXCEPT ![id].isActive = TRUE, ![id].order = seed.i - 1]
            ELSE (id :> [isActive |-> TRUE, order |-> seed.i - 1,
                         createdAt |-> Cardinality(DOMAIN personas) + 1])
                 @@ personas
    /\ seed' = IF seed.i < Len(CREATIVE_PERSONAS)
               THEN [seed EXCEPT !.i = @ + 1]
               ELSE [seed EXCEPT !.pc = "done", !.i = 1]
    /\ UNCHANGED <<users, counters, entries, gratitudePrompts, creativePrompts,
                   ollamaCalls, cookie, req>>

-----------------------------------------------------------------------------
\* api/auth/set and api/auth/verify.

PASSCODE_MIN == 4
PASSCODE_MAX == 128

NoUser == "no-user"

\* prisma.user.findFirst() has no orderBy: it returns any one row, or null.
FindFirstUser == IF DOMAIN users = {} THEN {NoUser} ELSE DOMAIN users

\* Faulty variant: the candidate is used as sent.
ParsePasscodeUntrimmed(input) ==
    IF IsString(input) THEN input ELSE Undefined

\* body.passcode?.trim()
ParsePasscode(input) ==
    IF IsString(input) THEN Str(Trim(input.v)) ELSE Undefined

PasscodeLengthOk(passcode) ==
    ~(Len(passcode.v) < PASSCODE_MIN \/ Len(passcode.v) > PASSCODE_MAX)

StoredHash(user) == IF user = NoUser THEN Null ELSE users[user].passcodeHash

\* Faulty variant: the set path never sees an existing hash.
PasscodeAlreadySetNever(user) == FALSE

\* existingUser?.passcodeHash, as a condition
PasscodeAlreadySet(user) == StoredHash(user) # Null

AuthRequest(op, c, input, user, status) ==
    [ op |-> op, pc |-> "done", client |-> c, input |-> input,
      passcode |-> ParsePasscode(input),
      hashExisted |-> (\E u \in DOMAIN users : users[u].passcodeHash # Null),
      user |-> user, readHash |-> StoredHash(user),
      status |-> status, setCookie |-> FALSE, wrote |-> FALSE ]

\* POST /api/auth/set up to and including prisma.user.findFirst().
PostAuthSetBegin(r, c, input) ==
    /\ FreeSlot(r)
    /\ LET passcode == ParsePasscode(input)
       IN IF ~Truthy(passcode)
          THEN req' = [req EXCEPT ![r] = AuthRequest("setPasscode", c, input, NoUser, 400)]
          ELSE IF ~PasscodeLengthOk(passcode)
          THEN req' = [req EXCEPT ![r] = AuthRequest("setPasscode", c, input, NoUser, 400)]
          ELSE \E existingUser \in FindFirstUser :
                 IF PasscodeAlreadySet(existingUser)
                 THEN req' = [req EXCEPT ![r] =
                         AuthRequest("setPasscode", c, input, existingUser, 409)]
                 ELSE req' = [req EXCEPT ![r] =
                         [ AuthRequest("setPasscode", c, input, existingUser, 0)
                             EXCEPT !.pc = "hash" ]]
    /\ UNCHANGED <<users, counters, entries, gratitudePrompts, personas,
                   creativePrompts, ollamaCalls, cookie, seed>>

\* POST /api/auth/set from argon2.hash to the response: the hash is written
\* to the row read earlier, or to a new row when none was found, and the
\* session cookie is set.
PostAuthSetWrite(r) ==
    /\ req[r].op = "setPasscode"
    /\ req[r].pc = "hash"
    /\ LET passcodeHash == Argon2Hash(req[r].passcode.v, r)
           userId == IF req[r].user # NoUser THEN req[r].user ELSE NewUserId
       IN /\ users' = IF req[r].user # NoUser
                      THEN [users EXCEPT ![userId].passcodeHash = passcodeHash]
                      ELSE (userId :> [passcodeHash |-> passcodeHash]) @@ users
          /\ cookie' = [cookie EXCEPT ![req[r].client] = SessionToken(userId)]
          /\ req' = [req EXCEPT ![r].pc = "done", ![r].status = 200,
                                ![r].user = userId,
                                ![r].setCookie = TRUE, ![r].wrote = TRUE]
    /\ UNCHANGED <<counters, entries, gratitudePrompts, personas,
                   creativePrompts, ollamaCalls, seed>>

\* POST /api/auth/verify: its one access to the database is findFirst.
PostAuthVerify(r, c, input) ==
    /\ FreeSlot(r)
    /\ LET passcode == ParsePasscode(input)
       IN IF ~Truthy(passcode)
          THEN /\ req' = [req EXCEPT ![r] =
                      AuthRequest("verifyPasscode", c, input, NoUser, 400)]
               /\ UNCHANGED cookie
          ELSE \E user \in FindFirstUser :
                 IF StoredHash(user) = Null
                 THEN /\ req' = [req EXCEPT ![r] =
                             AuthRequest("verifyPasscode", c, input, user, 400)]
                      /\ UNCHANGED cookie
                 ELSE IF ~Argon2Verify(StoredHash(user), passcode.v)
                 THEN /\ req' = [req EXCEPT ![r] =
                             AuthRequest("verifyPasscode", c, input, user, 401)]
                      /\ UNCHANGED cookie
                 ELSE /\ req' = [req EXCEPT ![r] =
                             [ AuthRequest("verifyPasscode", c, input, user, 200)
                                 EXCEPT !.setCookie = TRUE ]]
                      /\ cookie' = [cookie EXCEPT ![c] = SessionToken(user)]
    /\ UNCHANGED <<users, counters, entries, gratitudePrompts, personas,
                   creativePrompts, ollamaCalls, seed>>

-----------------------------------------------------------------------------
\* Specification SpecAuth: the passcode gate on a fresh database, beside one
\* run of the seed script.  The statements of the script before and after its
\* user check touch neither User rows nor cookies nor requests, so the script
\* is taken up at the user check (its counter rows are made) and followed to
\* the end of that check.

PasscodeInputs ==
    { Undefined,
      Str(<<" ">>),
      Str(<<"a","b","c">>),
      Str(<<"1","2","3","4">>),
      Str(<<"1","2","3","4"," ">>),
      Str(<<"9","9","9","9">>),
      Str([i \in 1..(PASSCODE_MAX + 1) |-> "x"]) }

SeedAtUserCheck == [pc |-> "userCount", i |-> 1, userCount |-> 0]

InitAuth ==
    /\ counters = [e \in EntryTypes |-> 0]
    /\ gratitudePrompts = <<>>
    /\ personas = <<>>
    /\ creativePrompts = <<>>
    /\ users = <<>>
    /\ cookie = [c \in Clients |-> NoCookie]
    /\ entries = <<>>
    /\ ollamaCalls = 0
    /\ req = [r \in 1..MaxAuthReq |-> Idle]
    /\ seed = SeedAtUserCheck

NextAuth ==
    \/ \E r \in DOMAIN req, c \in Clients, input \in PasscodeInputs :
          PostAuthSetBegin(r, c, input)
    \/ \E r \in DOMAIN req : PostAuthSetWrite(r)
    \/ \E r \in DOMAIN req, c \in Clients, input \in PasscodeInputs :
          PostAuthVerify(r, c, input)
    \/ SeedUserCount
    \/ SeedUserCreate

SpecAuth == InitAuth /\ [][NextAuth]_vars

-----------------------------------------------------------------------------
\* Properties of the passcode gate (specification SpecAuth).

SetRequests == { r \in DOMAIN req : req[r].op = "setPasscode" /\ req[r].pc = "done" }
VerifyRequests == { r \in DOMAIN req : req[r].op = "verifyPasscode" }

\* The candidate is acceptable to setPasscode: 4 to 128 characters once
\* the surrounding whitespace is removed.
ValidCandidate(input) ==
    /\ IsString(input)
    /\ Len(Trim(input.v)) >= PASSCODE_MIN
    /\ Len(Trim(input.v)) <= PASSCODE_MAX

EmptyCandidate(input) == ~IsString(input) \/ Trim(input.v) = <<>>

\* C4: under any interleaving of setPasscode requests at most one of them
\* succeeds: the stored hash goes from unset to set once and is not written
\* again.
C4_SingleSetSucceeds ==
    Cardinality({ r \in SetRequests : req[r].status = 200 }) <= 1

VerifiedAgainst(s) ==
    { v \in VerifyRequests : req[v].readHash # Null /\ req[v].readHash.salt = s }

\* C6 as stated: after a successful setPasscode(c), verifyPasscode(c)
\* succeeds with a session and verifyPasscode(d) is answered 401 for every
\* d other than c.
C6_ExactCandidate ==
    \A s \in SetRequests : \A v \in VerifiedAgainst(s) :
        req[s].status = 200 =>
            IF req[v].input = req[s].input
            THEN req[v].status = 200 /\ req[v].setCookie
            ELSE req[v].status = 401

\* C6 amended: against the hash written by a successful setPasscode(c),
\* verifyPasscode(d) succeeds with a session exactly when d and c are equal
\* once surrounding whitespace is removed, and is answered 401 otherwise; a d
\* that is empty once trimmed is answered 400.
C6_TrimmedCandidate ==
    /\ \A s \in SetRequests : \A v \in VerifiedAgainst(s) :
          req[s].status = 200 =>
              IF Trim(req[v].input.v) = Trim(req[s].input.v)
              THEN /\ req[v].status = 200 /\ req[v].setCookie
                   /\ req[v].user = req[s].user
              ELSE req[v].status = 401 /\ ~req[v].setCookie
    /\ \A v \in VerifyRequests :
          EmptyCandidate(req[v].input) =>
              req[v].status = 400 /\ ~req[v].setCookie

\* A verify succeeded with a candidate that differs from the one that was
\* set only by surrounding whitespace.
C6_Witness ==
    \E s \in SetRequests : \E v \in VerifiedAgainst(s) :
        /\ req[s].status = 200 /\ req[v].status = 200
        /\ req[v].input # req[s].input
        /\ cookie[req[v].client] = SessionToken(req[s].user)

\* The three refusals of verifyPasscode, and where a session comes from.
C7_Refusals ==
    /\ \A c \in Clients :
          cookie[c] # NoCookie =>
              \E r \in DOMAIN req :
                  /\ req[r].pc = "done" /\ req[r].client = c
                  /\ req[r].status = 200
                  /\ cookie[c] = SessionToken(req[r].user)
                  /\ \/ req[r].op = "setPasscode"
                     \/ /\ req[r].op = "verifyPasscode"
                        /\ req[r].readHash # Null
                        /\ req[r].readHash.pw = Trim(req[r].input.v)
    /\ \A v \in VerifyRequests :
          /\ EmptyCandidate(req[v].input) =>
                req[v].status = 400 /\ ~req[v].setCookie
          /\ (~EmptyCandidate(req[v].input) /\ req[v].readHash = Null) =>
                req[v].status = 400 /\ ~req[v].setCookie
          /\ (~EmptyCandidate(req[v].input) /\ req[v].readHash # Null
                  /\ req[v].readHash.pw # Trim(req[v].input.v)) =>
                req[v].status = 401 /\ ~req[v].setCookie

\* A step that answers a verifyPasscode request with 400 or 401 leaves the
\* User table and every cookie as they were.
C7_RefusalChangesNothing ==
    \A r \in DOMAIN req :
        (req[r] = Idle /\ req'[r].op = "verifyPasscode"
                /\ req'[r].status \in {400, 401}) =>
            users' = users /\ cookie' = cookie

\* C7: a browser holds a session only after its own successful setPasscode
\* or a verifyPasscode that matched the stored hash; verifyPasscode answers
\* 400 to an empty candidate, 400 when no hash is stored and 401 to a
\* mismatch, and in these cases sets no cookie and changes no User row.
C7_SessionOnlyByPasscode == []C7_Refusals /\ [][C7_RefusalChangesNothing]_vars

\* A verify was refused with 401 against a stored hash, and the browser that
\* sent it holds no session.
C7_Witness ==
    \E v \in VerifyRequests :
        /\ req[v].status = 401 /\ req[v].readHash # Null
        /\ cookie[req[v].client] = NoCookie

-----------------------------------------------------------------------------
\* JavaScript numbers, as far as the handlers use them.

Num(n) == [t |-> "number", v |-> n]
NaN == [t |-> "NaN"]

MathMax(a, b) ==
    IF a = NaN \/ b = NaN THEN NaN ELSE IF a.v >= b.v THEN a ELSE b

MathMin(a, b) ==
    IF a = NaN \/ b = NaN THEN NaN ELSE IF a.v <= b.v THEN a ELSE b

IsDigit(ch) == \E d \in 0..9 : DigitChars[d + 1] = ch

\* The longest prefix of s made of digits.
RECURSIVE DigitPrefix(_)
DigitPrefix(s) ==
    IF s # <<>> /\ IsDigit(Head(s)) THEN <<Head(s)>> \o DigitPrefix(Tail(s))
    ELSE <<>>

\* Number.parseInt(s, 10): leading whitespace and one sign are skipped, the
\* digits that follow are read, and NaN is the result when there are none.
ParseInt(s) ==
    LET t == TrimStart(s)
        negative == t # <<>> /\ Head(t) = "-"
        u == IF t # <<>> /\ Head(t) \in {"-", "+"} THEN Tail(t) ELSE t
        ds == DigitPrefix(u)
    IN IF ds = <<>> THEN NaN
       ELSE Num(IF negative THEN 0 - DigitsValue(ds) ELSE DigitsValue(ds))

-----------------------------------------------------------------------------
\* api/entries: GET, the paginated list.

PAGE_SIZE_DEFAULT == 10
PAGE_SIZE_MAX == 50

\* A faulty variant: a number other than zero is taken as it is.
NormalizePageSizeUnclamped(value) ==
    IF value = NaN \/ value.v = 0 THEN Num(PAGE_SIZE_DEFAULT) ELSE value

\* normalizePageSize: zero and NaN are falsy and give the default.
NormalizePageSize(value) ==
    IF value = NaN \/ value.v = 0 THEN Num(PAGE_SIZE_DEFAULT)
    ELSE MathMin(MathMax(value, Num(1)), Num(PAGE_SIZE_MAX))

\* page of the handler: searchParams.get("page") ?? "1", parsed, floored at 1.
ParsePage(raw) ==
    MathMax(Num(1), ParseInt(IF raw = Null THEN <<"1">> ELSE raw.v))

\* pageSize of the handler: searchParams.get("pageSize") ?? "", parsed.
ParsePageSize(raw) ==
    NormalizePageSize(ParseInt(IF raw = Null THEN <<>> ELSE raw.v))

\* The rows of userId, newest first (rows are kept in creation order).
RECURSIVE NewestFirst(_, _)
NewestFirst(rows, userId) ==
    IF rows = <<>> THEN <<>>
    ELSE LET last == rows[Len(rows)]
             rest == NewestFirst(SubSeq(rows, 1, Len(rows) - 1), userId)
         IN IF last.userId = userId THEN <<last>> \o rest ELSE rest

\* A faulty variant: every page is the first one.
FindManyEntriesNoSkip(userId, skip, take) ==
    LET mine == NewestFirst(entries, userId)
    IN SubSeq(mine, 1, IF take < Len(mine) THEN take ELSE Len(mine))

\* findMany({where: {userId}, orderBy: {createdAt: "desc"}, skip, take})
FindManyEntries(userId, skip, take) ==
    LET mine == NewestFirst(entries, userId)
    IN SubSeq(mine, skip + 1, IF skip + take < Len(mine) THEN skip + take
                              ELSE Len(mine))

CountEntries(userId) == Len(NewestFirst(entries, userId))

ListRequest(c, page, pageSize, userId, status) ==
    [ op |-> "listEntries", pc |-> "done", client |-> c, cookie |-> cookie[c],
      pageRaw |-> page, pageSizeRaw |-> pageSize, userId |-> userId,
      page |-> ParsePage(page), pageSize |-> ParsePageSize(pageSize),
      first |-> "none", rows |-> <<>>, total |-> 0, status |-> status ]

\* GET /api/entries up to and including the first of the two queries of
\* Promise.all([findMany, count]), which the database may serve in either
\* order.  A skip that is NaN is refused by Prisma and the handler throws.
GetEntriesBegin(r, c, page, pageSize) ==
    /\ FreeSlot(r)
    /\ LET userId == GetSessionUserId(cookie[c])
           q == ListRequest(c, page, pageSize, userId, 0)
       IN IF userId = NoSession
          THEN req' = [req EXCEPT ![r] = [q EXCEPT !.status = 401]]
          ELSE IF q.page = NaN
          THEN req' = [req EXCEPT ![r] = [q EXCEPT !.status = 500]]
          ELSE \E first \in {"findMany", "count"} :
                 req' = [req EXCEPT ![r] =
                     [ q EXCEPT
                         !.pc = "second", !.first = first,
                         !.rows = IF first = "findMany"
                                  THEN FindManyEntries(userId,
                                          (q.page.v - 1) * q.pageSize.v, q.pageSize.v)
                                  ELSE <<>>,
                         !.total = IF first = "count" THEN CountEntries(userId)
                                   ELSE 0 ]]
    /\ UNCHANGED <<users, counters, entries, gratitudePrompts, personas,
                   creativePrompts, ollamaCalls, cookie, seed>>

\* GET /api/entries: the other query, and the response.
GetEntriesFinish(r) ==
    /\ req[r].op = "listEntries"
    /\ req[r].pc = "second"
    /\ req' = [req EXCEPT
         ![r].pc = "done", ![r].status = 200,
         ![r].rows = IF req[r].first = "count"
                     THEN FindManyEntries(req[r].userId,
                             (req[r].page.v - 1) * req[r].pageSize.v,
                             req[r].pageSize.v)
                     ELSE @,
         ![r].total = IF req[r].first = "findMany"
                      THEN CountEntries(req[r].userId) ELSE @ ]
    /\ UNCHANGED <<users, counters, entries, gratitudePrompts, personas,
                   creativePrompts, ollamaCalls, cookie, seed>>

-----------------------------------------------------------------------------
\* api/entries/[id]: GET.

\* findUnique({where: {id}}): the row with the id, or null.
FindUniqueEntry(id) ==
    LET found == { i \in 1..Len(entries) : entries[i].id = id }
    IN IF found = {} THEN Null ELSE entries[CHOOSE i \in found : TRUE]

\* A faulty variant: only a missing row is hidden.
EntryHiddenOnlyIfMissing(entry, userId) == entry = Null

\* !entry || entry.userId !== userId
EntryHidden(entry, userId) == entry = Null \/ entry.userId # userId

\* GET /api/entries/[id]: the session check, findUnique, the ownership check.
GetEntryById(r, c, id) ==
    /\ FreeSlot(r)
    /\ LET userId == GetSessionUserId(cookie[c])
           entry == FindUniqueEntry(id)
           q == [ op |-> "getEntry", pc |-> "done", client |-> c,
                  cookie |-> cookie[c], id |-> id, userId |-> userId,
                  entry |-> Null, status |-> 0 ]
       IN IF userId = NoSession
          THEN req' = [req EXCEPT ![r] = [q EXCEPT !.status = 401]]
          ELSE IF EntryHidden(entry, userId)
          THEN req' = [req EXCEPT ![r] = [q EXCEPT !.status = 404]]
          ELSE req' = [req EXCEPT ![r] = [q EXCEPT !.status = 200, !.entry = entry]]
    /\ UNCHANGED <<users, counters, entries, gratitudePrompts, personas,
                   creativePrompts, ollamaCalls, cookie, seed>>

-----------------------------------------------------------------------------
\* api/prompts/gratitude/random: GET.

ActivePromptIds == { id \in DOMAIN gratitudePrompts : gratitudePrompts[id].isActive }

\* The ids of set, ordered by ascending key (a function on the ids, with
\* distinct values).
RECURSIVE SortedBy(_, _)
SortedBy(set, key) ==
    IF set = {} THEN <<>>
    ELSE LET least == CHOOSE x \in set : \A y \in set : key[x] <= key[y]
         IN <<least>> \o SortedBy(set \ {least}, key)

PromptCreatedAt == [id \in DOMAIN gratitudePrompts |-> gratitudePrompts[id].createdAt]

\* A faulty variant: the row at the offset among all prompts, active or not.
FindFirstPromptAnyState(skip) ==
    LET rows == SortedBy(DOMAIN gratitudePrompts, PromptCreatedAt)
    IN IF skip < Len(rows) THEN Str(rows[skip + 1]) ELSE Null

\* findFirst({where: {isActive: true}, orderBy: {createdAt: "asc"}, skip}):
\* the id of the row found, or null.
FindFirstActivePrompt(skip) ==
    LET active == SortedBy(ActivePromptIds, PromptCreatedAt)
    IN IF skip < Len(active) THEN Str(active[skip + 1]) ELSE Null

\* GET /api/prompts/gratitude/random up to and including count(): the
\* offset is Math.floor(Math.random() * activeCount).  activeAtCount and
\* activeAtPick record the prompts that were active at each of the two
\* queries.
GetRandomPromptBegin(r, c) ==
    /\ FreeSlot(r)
    /\ LET userId == GetSessionUserId(cookie[c])
           activeCount == Cardinality(ActivePromptIds)
           q == [ op |-> "randomPrompt", pc |-> "done", client |-> c,
                  cookie |-> cookie[c], userId |-> userId,
                  activeCount |-> activeCount, skip |-> 0,
                  activeAtCount |-> ActivePromptIds, activeAtPick |-> {},
                  prompt |-> Null, status |-> 0 ]
       IN IF userId = NoSession
          THEN req' = [req EXCEPT ![r] = [q EXCEPT !.activeCount = 0,
                                                   !.activeAtCount = {},
                                                   !.status = 401]]
          ELSE IF activeCount = 0
          THEN req' = [req EXCEPT ![r] = [q EXCEPT !.status = 404]]
          ELSE \E skip \in 0..(activeCount - 1) :
                 req' = [req EXCEPT ![r] = [q EXCEPT !.pc = "pick", !.skip = skip]]
    /\ UNCHANGED <<users, counters, entries, gratitudePrompts, personas,
                   creativePrompts, ollamaCalls, cookie, seed>>

\* findFirst at the offset, and the response.
GetRandomPromptPick(r) ==
    /\ req[r].op = "randomPrompt"
    /\ req[r].pc = "pick"
    /\ LET prompt == FindFirstActivePrompt(req[r].skip)
       IN req' = [req EXCEPT ![r].pc = "done",
                             ![r].activeAtPick = ActivePromptIds,
                             ![r].prompt = prompt,
                             ![r].status = IF prompt = Null THEN 500 ELSE 200]
    /\ UNCHANGED <<users, counters, entries, gratitudePrompts, personas,
                   creativePrompts, ollamaCalls, cookie, seed>>

-----------------------------------------------------------------------------
\* api/prompts/creative/personas and api/admin/prompts: the catalog.

\* orderBy: [{order: "asc"}, {createdAt: "asc"}], as one key.
PersonaRank ==
    [id \in DOMAIN personas |->
        personas[id].order * (Cardinality(DOMAIN personas) + 1) + personas[id].createdAt]

ActivePersonaIds == { id \in DOMAIN personas : personas[id].isActive }

\* The four read-only catalog routes: active personas, all personas, all
\* gratitude prompts.
CatalogRows(kind) ==
    CASE kind = "activePersonas" -> SortedBy(ActivePersonaIds, PersonaRank)
      [] kind = "adminPersonas" -> SortedBy(DOMAIN personas, PersonaRank)
      [] kind = "adminPrompts" -> SortedBy(DOMAIN gratitudePrompts, PromptCreatedAt)

CatalogKinds == {"activePersonas", "adminPersonas", "adminPrompts"}

\* GET /api/prompts/creative/personas, GET /api/admin/prompts/creative-personas
\* and GET /api/admin/prompts/gratitude: the session check and one findMany.
GetCatalog(r, c, kind) ==
    /\ FreeSlot(r)
    /\ LET userId == GetSessionUserId(cookie[c])
           q == [ op |-> "catalog", pc |-> "done", client |-> c,
                  cookie |-> cookie[c], userId |-> userId, kind |-> kind,
                  rows |-> <<>>, status |-> 401 ]
       IN IF userId = NoSession
          THEN req' = [req EXCEPT ![r] = q]
          ELSE req' = [req EXCEPT ![r] =
                  [q EXCEPT !.status = 200, !.rows = CatalogRows(kind)]]
    /\ UNCHANGED <<users, counters, entries, gratitudePrompts, personas,
                   creativePrompts, ollamaCalls, cookie, seed>>

Bool(b) == [t |-> "boolean", v |-> b]

\* A faulty variant: the flag of every row of the table is set.
SetActiveAll(table, id, isActive) ==
    [x \in DOMAIN table |-> [table[x] EXCEPT !.isActive = isActive]]

\* update({where: {id}, data: {isActive}})
SetActive(table, id, isActive) == [table EXCEPT ![id].isActive = isActive]

\* PATCH /api/admin/prompts/gratitude and PATCH
\* /api/admin/prompts/creative-personas: update({where: {id}, data:
\* {isActive}}), which throws when no row has the id.
PatchActive(r, c, kind, body) ==
    /\ FreeSlot(r)
    /\ LET userId == GetSessionUserId(cookie[c])
           table == IF kind = "prompt" THEN gratitudePrompts ELSE personas
           q == [ op |-> "toggle", pc |-> "done", client |-> c,
                  cookie |-> cookie[c], userId |-> userId, kind |-> kind,
                  body |-> body, status |-> 0 ]
       IN IF userId = NoSession
          THEN /\ req' = [req EXCEPT ![r] = [q EXCEPT !.status = 401]]
               /\ UNCHANGED <<gratitudePrompts, personas>>
          ELSE IF ~Truthy(body.id) \/ body.isActive.t # "boolean"
          THEN /\ req' = [req EXCEPT ![r] = [q EXCEPT !.status = 400]]
               /\ UNCHANGED <<gratitudePrompts, personas>>
          ELSE IF body.id.v \notin DOMAIN table
          THEN /\ req' = [req EXCEPT ![r] = [q EXCEPT !.status = 500]]
               /\ UNCHANGED <<gratitudePrompts, personas>>
          ELSE /\ req' = [req EXCEPT ![r] = [q EXCEPT !.status = 200]]
               /\ IF kind = "prompt"
                  THEN /\ gratitudePrompts' =
                            SetActive(gratitudePrompts, body.id.v, body.isActive.v)
                       /\ UNCHANGED personas
                  ELSE /\ personas' = SetActive(personas, body.id.v, body.isActive.v)
                       /\ UNCHANGED gratitudePrompts
    /\ UNCHANGED <<users, counters, entries, creativePrompts, ollamaCalls,
                   cookie, seed>>

-----------------------------------------------------------------------------
\* api/prompts/creative: POST, the generation of a creative prompt.

\* payload.personaIds filtered to its non-blank strings; [] when it is no
\* array (Undefined here).
Array(items) == [t |-> "array", v |-> items]

FilterPersonaIds(personaIds) ==
    IF personaIds.t # "array" THEN <<>>
    ELSE SelectSeq(personaIds.v, LAMBDA value : IsString(value) /\ Len(Trim(value.v)) > 0)

\* typeof payload.seedText === "string" ? payload.seedText.trim() : ""
ParseSeedText(seedText) == IF IsString(seedText) THEN Trim(seedText.v) ELSE <<>>

\* Faulty variant: the query does not filter on isActive.
FindPersonasAnyState(personaIds) ==
    LET named == { personaIds[i].v : i \in 1..Len(personaIds) }
        chosen == IF personaIds = <<>> THEN DOMAIN personas
                  ELSE DOMAIN personas \cap named
    IN SortedBy(chosen, PersonaRank)

\* findMany({where: {isActive: true, id: {in: personaIds}}, orderBy}): the
\* id filter is applied only when personaIds is not empty.
FindActivePersonas(personaIds) ==
    LET named == { personaIds[i].v : i \in 1..Len(personaIds) }
        chosen == IF personaIds = <<>> THEN ActivePersonaIds
                  ELSE ActivePersonaIds \cap named
    IN SortedBy(chosen, PersonaRank)

\* What fetch and the parsing of its answer can come to.
OllamaOutcomes ==
    { [kind |-> "network_error", text |-> <<>>],
      [kind |-> "http_error", text |-> <<>>],
      [kind |-> "response", text |-> <<" ">>],
      [kind |-> "response", text |-> <<" ", "o", "\r", "\n", "k", "\n">>] }

\* Faulty variant: every HTTP success counts, whatever its text.
OllamaResultAnyText(outcome) ==
    IF outcome.kind = "response"
    THEN [ok |-> TRUE, text |-> outcome.text]
    ELSE [ok |-> FALSE, text |-> <<>>]

\* generateViaOllama, from the answer on.
OllamaResult(outcome) ==
    IF outcome.kind = "response" /\ Trim(outcome.text) # <<>>
    THEN [ok |-> TRUE, text |-> outcome.text]
    ELSE [ok |-> FALSE, text |-> <<>>]

\* text.replace(/\r\n/g, "\n")
RECURSIVE ReplaceCrLf(_)
ReplaceCrLf(text) ==
    IF text = <<>> THEN <<>>
    ELSE IF Len(text) >= 2 /\ text[1] = "\r" /\ text[2] = "\n"
    THEN <<"\n">> \o ReplaceCrLf(SubSeq(text, 3, Len(text)))
    ELSE <<Head(text)>> \o ReplaceCrLf(Tail(text))

\* A faulty variant: the text is trimmed, its line endings are kept.
SanitizeTrimOnly(text) == Trim(text)

\* sanitizePromptText
SanitizePromptText(text) == Trim(ReplaceCrLf(text))

\* A text built from a template: a sequence of fixed pieces, persona names
\* (a name stands in one-to-one relation with the persona's id) and quoted
\* seed text.
Lit(text) == [lit |-> text]
PersonaName(id) == [name |-> id]
SeedQuote(seedText) == [seed |-> seedText]

\* personas.map((persona) => persona.name).join(", ")
RECURSIVE JoinNames(_)
JoinNames(personaList) ==
    IF personaList = <<>> THEN <<>>
    ELSE IF Len(personaList) = 1 THEN <<PersonaName(personaList[1])>>
    ELSE <<PersonaName(personaList[1]), Lit(", ")>> \o JoinNames(Tail(personaList))

\* buildFallbackPrompt
BuildFallbackPrompt(personaList, seedText) ==
    LET seedPart ==
            IF Len(seedText) > 0
            THEN <<Lit(" weaving in the seed "), SeedQuote(seedText), Lit(".")>>
            ELSE <<Lit(" discovering surprise in an otherwise ordinary day.")>>
    IN Str(<<Lit("Write a ")>> \o JoinNames(personaList)
           \o <<Lit(" inspired vignette")>> \o seedPart
           \o <<Lit(" Focus on texture, scent, and tiny gestures so the writer can expand it later.")>>)

\* Faulty variant of the insert: a fallback text is not stored.
CreativePromptCreateGeneratedOnly(rows, row) ==
    IF row.usedFallback THEN rows ELSE Append(rows, row)

\* prisma.creativePrompt.create
CreativePromptCreate(rows, row) == Append(rows, row)

\* POST /api/prompts/creative up to and including the sending of the request
\* to the generation service.
PostCreativeBegin(r, c, payload) ==
    /\ FreeSlot(r)
    /\ LET userId == GetSessionUserId(cookie[c])
           personaIds == FilterPersonaIds(payload.personaIds)
           found == FindActivePersonas(personaIds)
           q == [ op |-> "generate", pc |-> "done", client |-> c,
                  cookie |-> cookie[c], userId |-> userId, payload |-> payload,
                  seedText |-> ParseSeedText(payload.seedText),
                  personaIds |-> personaIds, activeAtQuery |-> ActivePersonaIds,
                  personas |-> <<>>, outcome |-> Null, promptId |-> Null,
                  text |-> Null, fromOllama |-> FALSE, status |-> 0 ]
       IN IF userId = NoSession
          THEN /\ req' = [req EXCEPT ![r] = [q EXCEPT !.status = 401]]
               /\ UNCHANGED ollamaCalls
          ELSE IF found = <<>>
          THEN /\ req' = [req EXCEPT ![r] = [q EXCEPT !.status = 400]]
               /\ UNCHANGED ollamaCalls
          ELSE /\ req' = [req EXCEPT ![r] =
                     [q EXCEPT !.pc = "ollama", !.personas = found]]
               /\ ollamaCalls' = ollamaCalls + 1
    /\ UNCHANGED <<users, counters, entries, gratitudePrompts, personas,
                   creativePrompts, cookie, seed>>

\* The generation service answers the fetch of request r (or the connection
\* fails): the awaited promise settles.  The handler has no timer of its own
\* on this wait.
OllamaAnswers(r, outcome) ==
    /\ req[r].op = "generate"
    /\ req[r].pc = "ollama"
    /\ req' = [req EXCEPT ![r].pc = "answered", ![r].outcome = outcome]
    /\ UNCHANGED <<users, counters, entries, gratitudePrompts, personas,
                   creativePrompts, ollamaCalls, cookie, seed>>

\* POST /api/prompts/creative from the answer of the generation service to
\* the response: the final text, creativePrompt.create, 201 or 202.
PostCreativeFinish(r) ==
    /\ req[r].op = "generate"
    /\ req[r].pc = "answered"
    /\ LET ollamaResult == OllamaResult(req[r].outcome)
           finalText == IF ollamaResult.ok /\ Len(Trim(ollamaResult.text)) > 0
                        THEN Str(SanitizePromptText(ollamaResult.text))
                        ELSE BuildFallbackPrompt(req[r].personas, req[r].seedText)
           id == <<"c">> \o NumberToString(Len(creativePrompts) + 1)
       IN /\ creativePrompts' = CreativePromptCreate(creativePrompts,
                 [ id |-> id, personasUsed |-> req[r].personas,
                   promptText |-> finalText, usedFallback |-> ~ollamaResult.ok ])
          /\ req' = [req EXCEPT
                 ![r].pc = "done", ![r].promptId = Str(id),
                 ![r].text = finalText,
                 ![r].fromOllama = ollamaResult.ok,
                 ![r].status = IF ollamaResult.ok THEN 201 ELSE 202 ]
    /\ UNCHANGED <<users, counters, entries, gratitudePrompts, personas,
                   ollamaCalls, cookie, seed>>

-----------------------------------------------------------------------------
\* Specification SpecGate: every entry, prompt and admin route, called by a
\* browser that holds a session and by one that holds none or a cookie the
\* server did not sign.

GateBodies ==
    { Body(Str(<<"a","n","g","e","r">>), Str(<<"b">>), Str(<<"r">>), Undefined, Undefined),
      Body(Str(<<"g","r","a","t","i","t","u","d","e">>), Undefined, Undefined,
           Str(<<"g","x">>), Undefined) }

GatePages == { Null, Str(<<"a","b","c">>) }
GatePageSizes == { Null, Str(<<"1">>) }
GateEntryIds == { 1, 2 }

GateToggles ==
    { [kind |-> kind, body |-> [id |-> id, isActive |-> isActive]] :
        kind \in {"prompt", "persona"},
        id \in {Undefined, Str(<<"g","1">>), Str(<<"p","1">>)},
        isActive \in {Undefined, Bool(FALSE)} }

GatePayloads ==
    { [personaIds |-> Undefined, seedText |-> Undefined],
      [personaIds |-> Array(<<Str(<<"p","1">>), Str(<<" ">>)>>),
       seedText |-> Str(<<" ", "s">>)],
      [personaIds |-> Array(<<Str(<<"p","9">>)>>), seedText |-> Undefined] }

\* The service fails, or answers with a text.
GateOutcomes ==
    { outcome \in OllamaOutcomes :
        outcome.kind = "network_error" \/ Trim(outcome.text) # <<>> }

\* The entry the signed-in user wrote earlier.
StoredEntry ==
    [ id |-> 1 ] @@
    EntryData("u1", "ANGER", FormatTitle("ANGER", 1),
              Body(Str(<<"a","n","g","e","r">>), Str(<<"b">>), Str(<<"r">>),
                   Undefined, Undefined))

InitGate ==
    /\ users = ("u1" :> [passcodeHash |-> Argon2Hash(<<"1","2","3","4">>, 0)])
    /\ cookie \in { [c \in Clients |-> IF c = "c1" THEN SessionToken("u1") ELSE other] :
                       other \in {NoCookie, ForgedCookie} }
    /\ counters = [e \in EntryTypes |-> IF e = "ANGER" THEN 1 ELSE 0]
    /\ entries = <<StoredEntry>>
    /\ gratitudePrompts =
         [id \in SeedPromptIds |->
             [isActive |-> TRUE, createdAt |-> SeedIndex(GRATITUDE_PROMPTS, id)]]
    /\ personas =
         [id \in SeedPersonaIds |->
             [isActive |-> TRUE, order |-> SeedIndex(CREATIVE_PERSONAS, id) - 1,
              createdAt |-> SeedIndex(CREATIVE_PERSONAS, id)]]
    /\ creativePrompts = <<StoredCreativePrompt>>
    /\ ollamaCalls = 0
    /\ req = [r \in 1..MaxGateReq |-> Idle]
    /\ seed = SeedIdle

NextGate ==
    \/ \E r \in 1..MaxGateReq, c \in Clients, body \in GateBodies :
         PostEntriesBegin(r, c, body)
    \/ \E r \in 1..MaxGateReq : PostEntriesPersist(r)
    \/ \E r \in 1..MaxGateReq, c \in Clients, page \in GatePages,
          pageSize \in GatePageSizes : GetEntriesBegin(r, c, page, pageSize)
    \/ \E r \in 1..MaxGateReq : GetEntriesFinish(r)
    \/ \E r \in 1..MaxGateReq, c \in Clients, id \in GateEntryIds :
         GetEntryById(r, c, id)
    \/ \E r \in 1..MaxGateReq, c \in Clients : GetRandomPromptBegin(r, c)
    \/ \E r \in 1..MaxGateReq : GetRandomPromptPick(r)
    \/ \E r \in 1..MaxGateReq, c \in Clients, kind \in CatalogKinds :
         GetCatalog(r, c, kind)
    \/ \E r \in 1..MaxGateReq, c \in Clients, t \in GateToggles :
         PatchActive(r, c, t.kind, t.body)
    \/ \E r \in 1..MaxGateReq, c \in Clients, payload \in GatePayloads :
         PostCreativeBegin(r, c, payload)
    \/ \E r \in 1..MaxGateReq, outcome \in GateOutcomes :
         OllamaAnswers(r, outcome)
    \/ \E r \in 1..MaxGateReq : PostCreativeFinish(r)

SpecGate == InitGate /\ [][NextGate]_vars

-----------------------------------------------------------------------------
\* Properties of the session gate, under SpecGate.

\* The request was sent with no cookie, or with one the server did not sign.
WithoutSession(q) == q.op # "none" /\ q.cookie.t # "jwt"

\* C8: every step taken for an entry, prompt or admin request that was sent
\* without a valid session answers it with 401 at once and leaves every
\* table and the count of calls to the generation service as they were: no
\* counter incremented, no entry or creative prompt created, no active flag
\* changed, no call sent.
C8_GateStep ==
    \A r \in 1..MaxGateReq :
        (req'[r] # req[r] /\ WithoutSession(req'[r])) =>
            /\ req[r] = Idle
            /\ req'[r].pc = "done"
            /\ req'[r].status = 401
            /\ UNCHANGED <<users, counters, entries, gratitudePrompts, personas,
                           creativePrompts, ollamaCalls>>

C8_NoSessionNoEffect == [][C8_GateStep]_vars

\* A request for generation sent with a forged cookie has been refused with
\* 401, while a signed-in generation went through and reached the service.
C8_Witness ==
    \E r, q \in 1..MaxGateReq :
        /\ req[r].op = "generate" /\ req[r].cookie = ForgedCookie
        /\ req[r].status = 401
        /\ req[q].op = "generate" /\ req[q].status = 201
        /\ ollamaCalls = 1

-----------------------------------------------------------------------------
\* Specification SpecGenerate: generation requests beside admin toggles of
\* personas.  The personas start with any combination of active flags (each
\* is the result of earlier toggles).

GenPersonaIds ==
    { Undefined,
      Array(<<>>),
      Array(<<Str(<<"p","2">>), Str(<<"p","1">>)>>),
      Array(<<Str(<<"p","1">>), Str(<<"p","9">>)>>),
      Array(<<Str(<<" ">>)>>) }

GenPayloads ==
    { [personaIds |-> ids,
       seedText |-> IF ids = Array(<<>>) THEN Str(<<" ", "s">>) ELSE Undefined] :
        ids \in GenPersonaIds }

GenToggles ==
    { [id |-> Str(id), isActive |-> Bool(b)] : id \in SeedPersonaIds, b \in BOOLEAN }

InitGenerate ==
    /\ Unlocked
    /\ counters = [e \in EntryTypes |-> 0]
    /\ entries = <<>>
    /\ gratitudePrompts =
         [id \in SeedPromptIds |->
             [isActive |-> TRUE, createdAt |-> SeedIndex(GRATITUDE_PROMPTS, id)]]
    /\ \E flags \in [SeedPersonaIds -> BOOLEAN] :
         personas =
           [id \in SeedPersonaIds |->
               [isActive |-> flags[id], order |-> SeedIndex(CREATIVE_PERSONAS, id) - 1,
                createdAt |-> SeedIndex(CREATIVE_PERSONAS, id)]]
    /\ creativePrompts = <<StoredCreativePrompt>>
    /\ ollamaCalls = 0
    /\ req = [r \in 1..MaxGenReq |-> Idle]
    /\ seed = SeedIdle

NextGenerate ==
    \/ \E r \in 1..MaxGenReq, c \in Clients, payload \in GenPayloads :
         PostCreativeBegin(r, c, payload)
    \/ \E r \in 1..MaxGenReq, outcome \in OllamaOutcomes : OllamaAnswers(r, outcome)
    \/ \E r \in 1..MaxGenReq : PostCreativeFinish(r)
    \/ \E r \in 1..MaxGenReq, body \in GenToggles :
         PatchActive(r, "c1", "persona", body)

SpecGenerate == InitGenerate /\ [][NextGenerate]_vars

\* The generation requests, and those that were answered.
GenerateRequests == { r \in DOMAIN req : req[r].op = "generate" }
GenerateDone == { r \in GenerateRequests : req[r].pc = "done" }

\* The call to the service failed: no connection, an HTTP error status, or a
\* text that is empty once trimmed.
ServiceFailed(outcome) ==
    outcome.kind # "response" \/ Trim(outcome.text) = <<>>

\* The CreativePrompt rows whose id is the one request r answered with.
RowsOf(r) ==
    { j \in 1..Len(creativePrompts) : Str(creativePrompts[j].id) = req[r].promptId }

\* C11: when the call to the generation service fails in any way, generate
\* answers 202 with fromOllama false and a non-empty fallback text that
\* holds the name of every selected persona, and the row it stores is
\* flagged usedFallback.
C11_FallbackOnFailure ==
    \A r \in GenerateDone :
        (req[r].outcome # Null /\ ServiceFailed(req[r].outcome)) =>
            /\ req[r].status = 202
            /\ ~req[r].fromOllama
            /\ req[r].text.v # <<>>
            /\ \A i \in 1..Len(req[r].personas) :
                  \E k \in 1..Len(req[r].text.v) :
                      req[r].text.v[k] = PersonaName(req[r].personas[i])
            /\ \E j \in RowsOf(r) :
                  /\ creativePrompts[j].usedFallback
                  /\ creativePrompts[j].promptText = req[r].text

\* A generation over two personas met an HTTP error and was answered 202.
C11_Witness ==
    \E r \in GenerateDone :
        /\ req[r].status = 202
        /\ req[r].outcome.kind = "http_error"
        /\ Len(req[r].personas) = 2

\* C12: every generation answered 201 or 202 has stored exactly one row, one
\* answered 400 or 401 has stored none, and the rows stored are as many as
\* the 201 and 202 answers given.
C12_OneRowPerAnswer ==
    /\ \A r \in GenerateDone :
          IF req[r].status \in {201, 202}
          THEN Cardinality(RowsOf(r)) = 1
          ELSE req[r].status \in {400, 401} /\ req[r].promptId = Null
    /\ \A r1, r2 \in GenerateDone :
          (r1 # r2 /\ req[r1].promptId # Null) => req[r1].promptId # req[r2].promptId
    /\ Len(creativePrompts) =
          1 + Cardinality({ r \in GenerateDone : req[r].status \in {201, 202} })

\* One generation stored a generated text, one a fallback text, and two rows
\* were added.
C12_Witness ==
    \E r1, r2 \in GenerateDone :
        /\ req[r1].status = 201 /\ req[r2].status = 202
        /\ Len(creativePrompts) = 3

\* The strings of payload.personaIds, as a set.
RequestedIds(payload) ==
    IF payload.personaIds.t # "array" THEN {}
    ELSE { payload.personaIds.v[i].v : i \in 1..Len(payload.personaIds.v) }

NonBlankRequestedIds(payload) == { id \in RequestedIds(payload) : Trim(id) # <<>> }

\* The ids of a list of personas.
Range(list) == { list[i] : i \in 1..Len(list) }

\* The generation requests that got past the session check and the query.
Queried == { r \in GenerateRequests : req[r].userId # NoSession }

\* C16 as stated: the personas used are the requested ones that are active,
\* all active ones when personaIds is empty, and the answer is 400 exactly
\* when that set is empty.
C16_RequestedAndActive ==
    \A r \in Queried :
        LET expected == IF RequestedIds(req[r].payload) = {}
                        THEN req[r].activeAtQuery
                        ELSE req[r].activeAtQuery \cap RequestedIds(req[r].payload)
        IN /\ (req[r].status = 400) <=> (expected = {})
           /\ Range(req[r].personas) = expected

\* C16 amended: the requested ids are the non-blank strings of personaIds;
\* when there are none (no array, an empty one, or only blank entries) all
\* active personas are used, otherwise the requested ones that are active
\* when the handler queries them; the answer is 400 exactly when that set is
\* empty, and the stored snapshot holds exactly these personas.
C16_NonBlankRequestedAndActive ==
    \A r \in Queried :
        LET asked == NonBlankRequestedIds(req[r].payload)
            expected == IF asked = {} THEN req[r].activeAtQuery
                        ELSE req[r].activeAtQuery \cap asked
        IN /\ (req[r].status = 400) <=> (expected = {})
           /\ Range(req[r].personas) = expected
           /\ Len(req[r].personas) = Cardinality(expected)
           /\ \A j \in RowsOf(r) :
                 creativePrompts[j].personasUsed = req[r].personas

\* A generation asked for an active, an inactive and no unknown persona
\* and used the active one alone.
C16_Witness ==
    \E r \in GenerateDone :
        /\ RequestedIds(req[r].payload) = {<<"p","1">>, <<"p","2">>}
        /\ req[r].activeAtQuery = {<<"p","2">>}
        /\ req[r].personas = <<<<"p","2">>>>
        /\ req[r].status \in {201, 202}

-----------------------------------------------------------------------------
\* Specification SpecGenerateLive: SpecGenerate with the scheduling the
\* server gives.  Once the promise of fetch has settled the handler runs on
\* to its response, so PostCreativeFinish is weakly fair.  Nothing in the
\* handler makes the promise settle: fetch is given no signal and no timer
\* is raced against it, so OllamaAnswers happens only if the service (or the
\* connection) makes it happen, and it carries no fairness.

SpecGenerateLive ==
    /\ InitGenerate
    /\ [][NextGenerate]_vars
    /\ \A r \in 1..MaxGenReq : WF_vars(PostCreativeFinish(r))

\* C13: every generation request is eventually answered, whatever the
\* generation service does.
C13_GenerateCompletes ==
    \A r \in 1..MaxGenReq :
        (req[r].op = "generate") ~> (req[r].op = "generate" /\ req[r].pc = "done")

-----------------------------------------------------------------------------
\* Specification SpecRead: two users read an archive that holds entries of
\* both, by id and page by page.  Nothing is created meanwhile.

\* The lengths of the archive: they give the first user 0, 3 and 11 entries.
ArchiveLengths == {0, 4, 15}

ArchiveOwner(id) == IF id % 4 = 2 THEN "u2" ELSE "u1"

\* The archive after len entries were created one after the other.
Archive(len) ==
    [ id \in 1..len |->
        [ id |-> id ] @@
        EntryData(ArchiveOwner(id), "ANGER", FormatTitle("ANGER", id),
                  Body(Str(<<"a","n","g","e","r">>), Str(<<"b">>), Str(<<"r">>),
                       Undefined, Undefined)) ]

ReadPages == { Null, Str(<<"2">>) }
ReadPageSizes == { Str(<<"2">>), Str(<<"1","0">>) }
ReadEntryIds == { 1, 2, 99 }

InitRead ==
    /\ users = [u \in {"u1", "u2"} |-> [passcodeHash |-> Argon2Hash(<<"1","2","3","4">>, 0)]]
    /\ cookie = [c \in Clients |-> SessionToken(IF c = "c1" THEN "u1" ELSE "u2")]
    /\ \E len \in ArchiveLengths :
          /\ entries = Archive(len)
          /\ counters = [e \in EntryTypes |-> IF e = "ANGER" THEN len ELSE 0]
    /\ gratitudePrompts =
         [id \in SeedPromptIds |->
             [isActive |-> TRUE, createdAt |-> SeedIndex(GRATITUDE_PROMPTS, id)]]
    /\ personas =
         [id \in SeedPersonaIds |->
             [isActive |-> TRUE, order |-> SeedIndex(CREATIVE_PERSONAS, id) - 1,
              createdAt |-> SeedIndex(CREATIVE_PERSONAS, id)]]
    /\ creativePrompts = <<StoredCreativePrompt>>
    /\ ollamaCalls = 0
    /\ req = [r \in 1..MaxReadReq |-> Idle]
    /\ seed = SeedIdle

NextRead ==
    \/ \E r \in 1..MaxReadReq, c \in Clients, id \in ReadEntryIds :
         GetEntryById(r, c, id)
    \/ \E r \in 1..MaxReadReq, c \in Clients, page \in ReadPages,
          pageSize \in ReadPageSizes : GetEntriesBegin(r, c, page, pageSize)
    \/ \E r \in 1..MaxReadReq : GetEntriesFinish(r)

SpecRead == InitRead /\ [][NextRead]_vars

GetRequests == { r \in DOMAIN req : req[r].op = "getEntry" }

\* What the caller of a finished request sees.
Response(r) == [status |-> req[r].status, entry |-> req[r].entry]

EntryIds == { entries[i].id : i \in 1..Len(entries) }

\* The id names an entry of somebody else than the caller.
ForeignId(r) ==
    \E i \in 1..Len(entries) :
        entries[i].id = req[r].id /\ entries[i].userId # req[r].userId

\* C14: an entry is returned by id only to the user who owns it, and the
\* answer for an id of somebody else's entry is the 404 given for an id that
\* names no entry.
C14_OnlyOwnEntryById ==
    /\ \A r \in GetRequests :
          /\ req[r].status = 200 <=>
                \E i \in 1..Len(entries) :
                    entries[i].id = req[r].id /\ entries[i].userId = req[r].userId
          /\ req[r].status = 200 =>
                /\ req[r].entry \in Range(entries)
                /\ req[r].entry.id = req[r].id
                /\ req[r].entry.userId = GetSessionUserId(req[r].cookie)
          /\ ForeignId(r) => Response(r) = [status |-> 404, entry |-> Null]
    /\ \A r, q \in GetRequests :
          (ForeignId(r) /\ req[q].id \notin EntryIds) => Response(r) = Response(q)

\* One user asked for an entry of the other and for an id nobody has, and
\* the other got the same entry.
C14_Witness ==
    \E r, q \in GetRequests :
        /\ req[r].userId = "u1" /\ req[r].id = 2 /\ req[r].status = 404
        /\ req[q].userId = "u2" /\ req[q].id = 2 /\ req[q].status = 200
        /\ req[q].entry.userId = "u2"

ListRequests ==
    { r \in DOMAIN req : req[r].op = "listEntries" /\ req[r].status = 200 }

\* The positions in the archive of the entries of userId.
OwnedBy(userId) == { i \in 1..Len(entries) : entries[i].userId = userId }

\* The rank of the entry at position i among its owner's, newest first.
RankNewestFirst(i) ==
    1 + Cardinality({ j \in OwnedBy(entries[i].userId) : j > i })

Least(a, b) == IF a <= b THEN a ELSE b

\* C15: page p of size s of an archive of N entries of the caller holds the
\* caller's entries of rank (p-1)s+1 to min(ps, N), newest first, nobody
\* else's, and meta.total is N.
C15_PageOfOwnEntries ==
    \A r \in ListRequests :
        LET p == req[r].page.v
            s == req[r].pageSize.v
            N == Cardinality(OwnedBy(req[r].userId))
            lastRank == Least(p * s, N)
            rows == req[r].rows
        IN /\ req[r].total = N
           /\ Len(rows) = (IF lastRank > (p - 1) * s THEN lastRank - (p - 1) * s ELSE 0)
           /\ \A k \in 1..Len(rows) :
                 \E i \in OwnedBy(req[r].userId) :
                     /\ rows[k] = entries[i]
                     /\ RankNewestFirst(i) = (p - 1) * s + k

\* Eleven entries read ten to a page: ten on the first page, one on the
\* second.
C15_Witness ==
    \E r, q \in ListRequests :
        /\ req[r].userId = "u1" /\ req[q].userId = "u1"
        /\ req[r].pageSize.v = 10 /\ req[q].pageSize.v = 10
        /\ req[r].page.v = 1 /\ Len(req[r].rows) = 10 /\ req[r].total = 11
        /\ req[q].page.v = 2 /\ Len(req[q].rows) = 1 /\ req[q].total = 11
        /\ req[q].rows[1].id = 1

-----------------------------------------------------------------------------
\* Specification SpecPrompts: random gratitude prompts are asked for while
\* prompts and personas are switched on and off.  The prompts and personas
\* start with any combination of active flags, and an entry of each kind
\* refers to a prompt.

PromptToggles ==
    { [kind |-> "prompt", body |-> [id |-> Str(id), isActive |-> Bool(b)]] :
        id \in SeedPromptIds \cup {<<"g","9">>}, b \in BOOLEAN }
    \cup
    { [kind |-> "persona", body |-> [id |-> Str(id), isActive |-> Bool(b)]] :
        id \in SeedPersonaIds, b \in BOOLEAN }
    \cup
    { [kind |-> "prompt", body |-> [id |-> Str(<<"g","1">>), isActive |-> Undefined]] }

\* Entries written earlier, one from a gratitude prompt and one from a
\* generated creative prompt.
PromptEntries ==
    << [ id |-> 1 ] @@
       EntryData("u1", "GRATITUDE", FormatTitle("GRATITUDE", 1),
                 Body(Str(<<"g","r","a","t","i","t","u","d","e">>), Str(<<"b">>),
                      Undefined, Str(<<"g","1">>), Undefined)),
       [ id |-> 2 ] @@
       EntryData("u1", "CREATIVE", FormatTitle("CREATIVE", 1),
                 Body(Str(<<"c","r","e","a","t","i","v","e">>), Str(<<"b">>),
                      Undefined, Undefined, Str(<<"c","1">>))) >>

InitPrompts ==
    /\ Unlocked
    /\ counters = [e \in EntryTypes |-> IF e = "ANGER" THEN 0 ELSE 1]
    /\ entries = PromptEntries
    /\ gratitudePrompts \in
         [SeedPromptIds -> [isActive : BOOLEAN, createdAt : 1..Len(GRATITUDE_PROMPTS)]]
    /\ \A id \in SeedPromptIds :
          gratitudePrompts[id].createdAt = SeedIndex(GRATITUDE_PROMPTS, id)
    /\ personas \in
         [SeedPersonaIds -> [isActive : BOOLEAN, order : 0..Len(CREATIVE_PERSONAS),
                             createdAt : 1..Len(CREATIVE_PERSONAS)]]
    /\ \A id \in SeedPersonaIds :
          /\ personas[id].order = SeedIndex(CREATIVE_PERSONAS, id) - 1
          /\ personas[id].createdAt = SeedIndex(CREATIVE_PERSONAS, id)
    /\ creativePrompts = <<StoredCreativePrompt>>
    /\ ollamaCalls = 0
    /\ req = [r \in 1..MaxPromptReq |-> Idle]
    /\ seed = SeedIdle

NextPrompts ==
    \/ \E r \in 1..MaxPromptReq, c \in Clients : GetRandomPromptBegin(r, c)
    \/ \E r \in 1..MaxPromptReq : GetRandomPromptPick(r)
    \/ \E r \in 1..MaxPromptReq, c \in Clients, t \in PromptToggles :
         PatchActive(r, c, t.kind, t.body)

SpecPrompts == InitPrompts /\ [][NextPrompts]_vars

\* The random-prompt requests that were let in and answered.
Picks ==
    { r \in DOMAIN req : req[r].op = "randomPrompt" /\ req[r].pc = "done"
                            /\ req[r].userId # NoSession }

\* The number of prompts of the set created before id.
OlderIn(set, id) ==
    Cardinality({ x \in set : gratitudePrompts[x].createdAt
                                 < gratitudePrompts[id].createdAt })

ToggleStep(r) == req[r] = Idle /\ req'[r] # Idle /\ req'[r].op = "toggle"

\* The row id of the table of kind is the one the toggle addresses.
Addressed(q, kind, id) == q.kind = kind /\ q.body.id = Str(id)

\* The table after the step is the table before it, but for the flag of the
\* addressed row, which is the one asked for if the toggle was carried out.
OnlyFlagOfAddressed(q, kind, before, after) ==
    /\ DOMAIN after = DOMAIN before
    /\ \A id \in DOMAIN before :
          IF Addressed(q, kind, id) /\ q.status = 200
          THEN after[id] = [before[id] EXCEPT !.isActive = q.body.isActive.v]
          ELSE after[id] = before[id]

C18_ToggleStep ==
    \A r \in 1..MaxPromptReq :
        ToggleStep(r) =>
            /\ UNCHANGED <<users, counters, entries, creativePrompts, ollamaCalls, cookie>>
            /\ OnlyFlagOfAddressed(req'[r], "prompt", gratitudePrompts, gratitudePrompts')
            /\ OnlyFlagOfAddressed(req'[r], "persona", personas, personas')

\* C18: a toggle changes the isActive flag of the row it addresses and
\* nothing else: the entries with their prompt references, the stored
\* creative prompts with their persona snapshots, the counters and every
\* other prompt and persona are after the toggle what they were before it.
C18_ToggleChangesOnlyFlag == [][C18_ToggleStep]_vars

\* The prompt an entry refers to was switched off by a toggle, and the entry
\* still refers to it; the other prompt is active.
C18_Witness ==
    \E r \in 1..MaxPromptReq :
        /\ req[r].op = "toggle" /\ req[r].status = 200
        /\ Addressed(req[r], "prompt", GRATITUDE_PROMPTS[1])
        /\ req[r].body.isActive = Bool(FALSE)
        /\ ~gratitudePrompts[GRATITUDE_PROMPTS[1]].isActive
        /\ gratitudePrompts[GRATITUDE_PROMPTS[2]].isActive
        /\ entries[1].gratitudePromptId = Str(GRATITUDE_PROMPTS[1])
        /\ entries = PromptEntries

-----------------------------------------------------------------------------
\* Specification SpecSession: browsers sign in, time passes, cookies are
\* lost or replaced by values the server never issued, and a gated route
\* is called with whatever cookie the browser then holds.

\* The ages at which tokens are looked at: fresh, a second old, a second
\* before expiry, at expiry and a second after.
AgeMarks == {0, 1, SESSION_MAX_AGE - 1, SESSION_MAX_AGE, SESSION_MAX_AGE + 1}

\* The lengths of time that pass in one step.
TimeSteps == {1, SESSION_MAX_AGE - 2, SESSION_MAX_AGE - 1, SESSION_MAX_AGE}

Older(ck, d) ==
    IF ck.t = "jwt"
    THEN [ck EXCEPT !.age = IF @ + d > SESSION_MAX_AGE THEN SESSION_MAX_AGE + 1 ELSE @ + d]
    ELSE ck

\* d seconds pass: every token is d seconds older.
TimePasses(d) ==
    /\ \E c \in Clients : cookie[c].t = "jwt"
    /\ \A c \in Clients : cookie[c].t = "jwt" => Older(cookie[c], d).age \in AgeMarks
    /\ \E c \in Clients : Older(cookie[c], d) # cookie[c]
    /\ cookie' = [c \in Clients |-> Older(cookie[c], d)]
    /\ UNCHANGED <<users, counters, entries, gratitudePrompts, personas,
                   creativePrompts, ollamaCalls, req, seed>>

\* The browser drops its cookie, or holds a value the server did not issue.
CookieReplaced(c, ck) ==
    /\ cookie[c] # ck
    /\ cookie' = [cookie EXCEPT ![c] = ck]
    /\ UNCHANGED <<users, counters, entries, gratitudePrompts, personas,
                   creativePrompts, ollamaCalls, req, seed>>

InitSession ==
    /\ users = ("u1" :> [passcodeHash |-> Argon2Hash(<<"1","2","3","4">>, 0)])
    /\ cookie = [c \in Clients |-> NoCookie]
    /\ counters = [e \in EntryTypes |-> 0]
    /\ entries = <<>>
    /\ gratitudePrompts =
         [id \in SeedPromptIds |->
             [isActive |-> TRUE, createdAt |-> SeedIndex(GRATITUDE_PROMPTS, id)]]
    /\ personas =
         [id \in SeedPersonaIds |->
             [isActive |-> TRUE, order |-> SeedIndex(CREATIVE_PERSONAS, id) - 1,
              createdAt |-> SeedIndex(CREATIVE_PERSONAS, id)]]
    /\ creativePrompts = <<StoredCreativePrompt>>
    /\ ollamaCalls = 0
    /\ req = [r \in 1..MaxSessionReq |-> Idle]
    /\ seed = SeedIdle

NextSession ==
    \/ \E r \in 1..MaxSessionReq, c \in Clients :
         PostAuthVerify(r, c, Str(<<"1","2","3","4">>))
    \/ \E d \in TimeSteps : TimePasses(d)
    \/ \E c \in Clients, ck \in {NoCookie, ForgedCookie, MalformedCookie} :
         CookieReplaced(c, ck)
    \/ \E r \in 1..MaxSessionReq, c \in Clients : GetCatalog(r, c, "adminPrompts")

SpecSession == InitSession /\ [][NextSession]_vars

\* The calls of the gated route, each with the cookie it was sent with.
Probes == { r \in DOMAIN req : req[r].op = "catalog" }

\* The cookie is a token the server signed at a sign-in.
IssuedBySignIn(ck) == \E u \in DOMAIN users : [ck EXCEPT !.age = 0] = SessionToken(u)

\* C19: the session check yields the user id embedded in the cookie exactly
\* when the cookie is there, was signed by the server and was issued less
\* than 180 days ago; with any other cookie it yields no session, and the
\* route answers 401 rather than failing.
C19_SessionWhenValidCookie ==
    \A r \in Probes :
        LET ck == req[r].cookie
            valid == /\ ck # NoCookie
                     /\ ck.t = "jwt" /\ IssuedBySignIn(ck)
                     /\ ck.age < 180 * 24 * 60 * 60
        IN /\ valid => req[r].userId = ck.sub /\ req[r].status = 200
           /\ ~valid => req[r].userId = NoSession /\ req[r].status = 401

\* A token was accepted a second before its expiry and refused at its
\* expiry.
C19_Witness ==
    \E r, q \in Probes :
        /\ req[r].cookie.t = "jwt" /\ req[r].cookie.age = SESSION_MAX_AGE - 1
        /\ req[r].userId = "u1" /\ req[r].status = 200
        /\ req[q].cookie.t = "jwt" /\ req[q].cookie.age = SESSION_MAX_AGE
        /\ req[q].userId = NoSession /\ req[q].status = 401

-----------------------------------------------------------------------------
\* The single user row, under SpecAuth.

\* C20: whatever the interleaving of setPasscode requests and the seed
\* script, table User never holds more than one row.
C20_SingleUserRow == Cardinality(DOMAIN users) <= 1

-----------------------------------------------------------------------------
\* Specification SpecSeed: the seed script is run, and run again, on a
\* database in use and on an empty one, while entries are created.  On the
\* database in use some prompts and personas were switched off and the
\* second prompt of the list may be new to it.

\* The script is started again.
SeedRunAgain ==
    /\ seed.pc = "done"
    /\ seed' = SeedReady
    /\ UNCHANGED <<users, counters, entries, gratitudePrompts, personas,
                   creativePrompts, ollamaCalls, cookie, req>>

InitSeedInUse ==
    /\ Unlocked
    /\ counters = [e \in EntryTypes |-> IF e = "ANGER" THEN 0 ELSE 1]
    /\ entries = PromptEntries
    /\ \E known \in {SeedPromptIds, {GRATITUDE_PROMPTS[1]}},
          flags \in [SeedPromptIds -> BOOLEAN] :
          gratitudePrompts =
            [id \in known |-> [isActive |-> flags[id],
                               createdAt |-> SeedIndex(GRATITUDE_PROMPTS, id)]]
    /\ \E flags \in [SeedPersonaIds -> BOOLEAN] :
          personas =
            [id \in SeedPersonaIds |->
                [isActive |-> flags[id], order |-> SeedIndex(CREATIVE_PERSONAS, id) - 1,
                 createdAt |-> SeedIndex(CREATIVE_PERSONAS, id)]]
    /\ creativePrompts = <<StoredCreativePrompt>>

InitSeedEmpty ==
    /\ users = <<>>
    /\ cookie = [c \in Clients |-> NoCookie]
    /\ entries = <<>>
    /\ Catalog(FALSE)

InitSeed ==
    /\ InitSeedInUse \/ InitSeedEmpty
    /\ ollamaCalls = 0
    /\ req = [r \in 1..MaxSeedReq |-> Idle]
    /\ seed = SeedReady

NextSeed ==
    \/ SeedEntryCounter
    \/ SeedUserCount
    \/ SeedUserCreate
    \/ SeedGratitudePrompt
    \/ SeedCreativePersona
    \/ SeedRunAgain
    \/ \E r \in 1..MaxSeedReq, c \in Clients, body \in GateBodies :
         PostEntriesBegin(r, c, body)
    \/ \E r \in 1..MaxSeedReq : PostEntriesPersist(r)

SpecSeed == InitSeed /\ [][NextSeed]_vars

\* The catalog is what a run of the script leaves: every counter row is
\* there, a user is there, and every prompt and persona of the lists is
\* there and active, the personas in the order of their list.
AsSeeded ==
    /\ \A e \in EntryTypes : counters[e] # Absent
    /\ DOMAIN users # {}
    /\ SeedPromptIds \subseteq DOMAIN gratitudePrompts
    /\ \A id \in SeedPromptIds : gratitudePrompts[id].isActive
    /\ SeedPersonaIds \subseteq DOMAIN personas
    /\ \A id \in SeedPersonaIds :
          personas[id].isActive /\ personas[id].order = SeedIndex(CREATIVE_PERSONAS, id) - 1

C21_SeedStep ==
    (seed' # seed) =>
        /\ UNCHANGED <<entries, creativePrompts>>
        /\ \A u \in DOMAIN users : u \in DOMAIN users' /\ users'[u] = users[u]
        /\ DOMAIN users # {} => DOMAIN users' = DOMAIN users
        /\ \A e \in EntryTypes : counters[e] # Absent => counters'[e] = counters[e]
        /\ AsSeeded => UNCHANGED <<users, counters, gratitudePrompts, personas>>
        /\ seed'.pc = "done" => AsSeeded'

\* C21: a step of the seed script leaves the entries with their prompt
\* references, the stored creative prompts, the user rows with their
\* passcode hash and the value of every counter that exists as they are,
\* and adds no user row to one that is there; a run ends with the catalog
\* as seeded, and on a catalog as seeded no step changes any table.
C21_SeedKeepsHistory == [][C21_SeedStep]_vars

\* The script was run to its end beside a creation: the entries written
\* before are there with the new one, the counter stands at its value, the
\* hash is set and only one user row exists.
C21_Witness ==
    /\ seed.pc = "done"
    /\ Len(entries) = Len(PromptEntries) + 1
    /\ SubSeq(entries, 1, Len(PromptEntries)) = PromptEntries
    /\ counters["GRATITUDE"] = 1 /\ counters["ANGER"] = 1
    /\ DOMAIN users = {"u1"} /\ users["u1"].passcodeHash # Null
    /\ AsSeeded

-----------------------------------------------------------------------------
\* api/auth/status: GET.

\* Promise.all([prisma.user.findFirst(), getSessionUserId()]) and the two
\* flags of the response.
GetAuthStatus(r, c) ==
    /\ FreeSlot(r)
    /\ \E user \in FindFirstUser :
          req' = [req EXCEPT ![r] =
              [ op |-> "status", pc |-> "done", client |-> c, cookie |-> cookie[c],
                user |-> user,
                hasPasscode |-> Truthy(StoredHash(user)),
                authenticated |-> GetSessionUserId(cookie[c]) # NoSession,
                status |-> 200 ]]
    /\ UNCHANGED <<users, counters, entries, gratitudePrompts, personas,
                   creativePrompts, ollamaCalls, cookie, seed>>

\* Specification SpecStatus: the status is asked for on a fresh database
\* while the passcode is set and the seed script makes its user check.

InitStatus ==
    /\ users = <<>>
    /\ cookie = [c \in Clients |-> NoCookie]
    /\ entries = <<>>
    /\ counters = [e \in EntryTypes |-> 0]
    /\ gratitudePrompts = <<>>
    /\ personas = <<>>
    /\ creativePrompts = <<>>
    /\ ollamaCalls = 0
    /\ req = [r \in 1..MaxStatusReq |-> Idle]
    /\ seed = SeedAtUserCheck

NextStatus ==
    \/ \E r \in 1..MaxStatusReq, c \in Clients :
         PostAuthSetBegin(r, c, Str(<<"1","2","3","4">>))
    \/ \E r \in 1..MaxStatusReq : PostAuthSetWrite(r)
    \/ SeedUserCount
    \/ SeedUserCreate
    \/ \E r \in 1..MaxStatusReq, c \in Clients : GetAuthStatus(r, c)

SpecStatus == InitStatus /\ [][NextStatus]_vars

\* A passcode has been set: some user row holds a hash.
Configured == \E u \in DOMAIN users : users[u].passcodeHash # Null

C22_StatusStep ==
    \A r \in 1..MaxStatusReq :
        (req[r] = Idle /\ req'[r] # Idle /\ req'[r].op = "status") =>
            /\ req'[r].hasPasscode = Configured
            /\ req'[r].authenticated = (cookie[req'[r].client].t = "jwt")

\* C22: status reports hasPasscode exactly when a passcode has been set,
\* so never false once one is set (no step unsets it), and authenticated
\* exactly when the caller holds a session.
C22_ConfiguredForGood ==
    /\ [][C22_StatusStep]_vars
    /\ [][Configured => Configured']_vars

-----------------------------------------------------------------------------
\* The classification of a generation, under SpecGenerate.

\* The service was reached, answered with a success status and returned a
\* text that is not empty once trimmed.
ServiceSucceeded(outcome) ==
    outcome.kind = "response" /\ \E i \in 1..Len(outcome.text) : outcome.text[i] \notin Whitespace

Visible(text) == SelectSeq(text, LAMBDA ch : ch \notin Whitespace)

\* clean is text with its line endings normalized and trimmed: the same
\* visible characters, no whitespace at either end, no CR LF pair left and
\* one character less for each pair and each whitespace trimmed away.
Normalized(text, clean) ==
    /\ Visible(clean) = Visible(text)
    /\ clean # <<>>
    /\ clean[1] \notin Whitespace /\ clean[Len(clean)] \notin Whitespace
    /\ \A i \in 1..(Len(clean) - 1) : ~(clean[i] = "\r" /\ clean[i + 1] = "\n")
    /\ \E a, b \in 0..Len(text) :
          /\ a + b < Len(text)
          /\ \A i \in 1..a : text[i] \in Whitespace
          /\ \A i \in (Len(text) - b + 1)..Len(text) : text[i] \in Whitespace
          /\ text[a + 1] \notin Whitespace /\ text[Len(text) - b] \notin Whitespace
          /\ Len(clean) = Len(text) - a - b
               - Cardinality({ i \in (a + 1)..(Len(text) - b - 1) :
                                 text[i] = "\r" /\ text[i + 1] = "\n" })

\* C23: a generation is answered 201 with fromOllama true and a row not
\* flagged usedFallback exactly when the service was reached, answered with
\* a success status and returned a text that is not empty once trimmed;
\* the text stored and returned is then the service's text, line endings
\* normalized and trimmed.  In every other case the answer is 202 and the
\* text stored and returned is the fallback sentence.
C23_SuccessClassification ==
    \A r \in GenerateDone :
        req[r].outcome # Null =>
            \E j \in RowsOf(r) :
                /\ creativePrompts[j].promptText = req[r].text
                /\ IF ServiceSucceeded(req[r].outcome)
                   THEN /\ req[r].status = 201 /\ req[r].fromOllama
                        /\ ~creativePrompts[j].usedFallback
                        /\ Normalized(req[r].outcome.text, req[r].text.v)
                   ELSE /\ req[r].status = 202 /\ ~req[r].fromOllama
                        /\ creativePrompts[j].usedFallback
                        /\ req[r].text = BuildFallbackPrompt(req[r].personas, req[r].seedText)

\* A text with a CR LF pair and whitespace around it was returned by the
\* service and stored, and another generation fell back.
C23_Witness ==
    \E r, q \in GenerateDone :
        /\ req[r].status = 201
        /\ \E i \in 1..Len(req[r].outcome.text) : req[r].outcome.text[i] = "\r"
        /\ req[r].text = Str(<<"o", "\n", "k">>)
        /\ req[q].status = 202

-----------------------------------------------------------------------------
\* Specification SpecQuery: the list is asked for with every kind of page
\* and pageSize parameter: absent, not a number, zero, negative, positive,
\* above the maximum.

QueryPages ==
    { Null, Str(<<"a","b","c">>), Str(<<"0">>), Str(<<"-","3">>), Str(<<"2">>) }

QueryPageSizes ==
    { Null, Str(<<"a","b","c">>), Str(<<"0">>), Str(<<"-","5">>), Str(<<"1">>),
      Str(<<"5","0">>), Str(<<"5","1">>) }

QueryParams ==
    { [page |-> page, pageSize |-> Null] : page \in QueryPages }
    \cup { [page |-> Null, pageSize |-> pageSize] : pageSize \in QueryPageSizes }

InitQuery ==
    /\ users = [u \in {"u1", "u2"} |-> [passcodeHash |-> Argon2Hash(<<"1","2","3","4">>, 0)]]
    /\ cookie = [c \in Clients |-> IF c = "c1" THEN SessionToken("u1") ELSE NoCookie]
    /\ entries = Archive(4)
    /\ counters = [e \in EntryTypes |-> IF e = "ANGER" THEN 4 ELSE 0]
    /\ gratitudePrompts =
         [id \in SeedPromptIds |->
             [isActive |-> TRUE, createdAt |-> SeedIndex(GRATITUDE_PROMPTS, id)]]
    /\ personas =
         [id \in SeedPersonaIds |->
             [isActive |-> TRUE, order |-> SeedIndex(CREATIVE_PERSONAS, id) - 1,
              createdAt |-> SeedIndex(CREATIVE_PERSONAS, id)]]
    /\ creativePrompts = <<StoredCreativePrompt>>
    /\ ollamaCalls = 0
    /\ req = [r \in 1..MaxQueryReq |-> Idle]
    /\ seed = SeedIdle

NextQuery ==
    \/ \E r \in 1..MaxQueryReq, q \in QueryParams :
         GetEntriesBegin(r, "c1", q.page, q.pageSize)
    \/ \E r \in 1..MaxQueryReq : GetEntriesFinish(r)

SpecQuery == InitQuery /\ [][NextQuery]_vars

\* The list requests that were let in.
Queries ==
    { r \in DOMAIN req : req[r].op = "listEntries" /\ req[r].userId # NoSession }

\* The parameter is there and is an integer in decimal: digits, after a
\* minus sign or not.
IsInteger(raw) ==
    /\ raw # Null
    /\ LET digits == IF raw.v # <<>> /\ Head(raw.v) = "-" THEN Tail(raw.v) ELSE raw.v
       IN digits # <<>> /\ \A i \in 1..Len(digits) : IsDigit(digits[i])

\* The integer the parameter stands for.
Requested(raw) ==
    IF Head(raw.v) = "-" THEN 0 - DigitsValue(Tail(raw.v)) ELSE DigitsValue(raw.v)

Clamp(n, low, high) == IF n < low THEN low ELSE IF n > high THEN high ELSE n

\* C24: whatever the page parameter, the page used is an integer of at
\* least 1: 1 when the parameter is absent or no number, else the larger of
\* 1 and the number asked for; the list is then read (the number of rows
\* skipped is a natural number) and answered with 200.
C24_EffectivePage ==
    \A r \in Queries :
        /\ req[r].page =
              Num(IF IsInteger(req[r].pageRaw)
                  THEN Clamp(Requested(req[r].pageRaw), 1, Requested(req[r].pageRaw))
                  ELSE 1)
        /\ req[r].pc = "done" => req[r].status = 200

\* C25 as stated: the pageSize used is 10 when the parameter is absent or
\* no number, else the number asked for clamped to 1..50, so 1 for zero.
C25_ClampedPageSize ==
    \A r \in Queries :
        req[r].pageSize =
            Num(IF IsInteger(req[r].pageSizeRaw)
                THEN Clamp(Requested(req[r].pageSizeRaw), 1, PAGE_SIZE_MAX)
                ELSE PAGE_SIZE_DEFAULT)

\* C25: the pageSize used is within 1..50: it is 10 when the parameter is
\* absent, no number or zero, else the number asked for clamped to 1..50.
C25_ClampedOrDefaultPageSize ==
    \A r \in Queries :
        /\ req[r].pageSize.t = "number"
        /\ req[r].pageSize.v \in 1..PAGE_SIZE_MAX
        /\ req[r].pageSize =
              Num(IF IsInteger(req[r].pageSizeRaw) /\ Requested(req[r].pageSizeRaw) # 0
                  THEN Clamp(Requested(req[r].pageSizeRaw), 1, PAGE_SIZE_MAX)
                  ELSE PAGE_SIZE_DEFAULT)

\* A pageSize of zero gave 10 and one of 51 gave 50.
C25_Witness ==
    \E r, q \in Queries :
        /\ req[r].pageSizeRaw = Str(<<"0">>) /\ req[r].pageSize = Num(10)
        /\ req[q].pageSizeRaw = Str(<<"5","1">>) /\ req[q].pageSize = Num(50)
        /\ req[r].status = 200 /\ req[q].status = 200

-----------------------------------------------------------------------------
\* Specification SpecTitle: titles issued from counters that have no row, that
\* the seed created at zero, or that earlier creations have moved on.

\* The counter of a category before the requests: no row, the seed's zero, and
\* values just below a title of three digits and of four.
TitleCounters == { Absent, 0, 6, 999 }

TitleBodies ==
    { Body(Str(<<"a","n","g","e","r">>), Str(<<"b">>), Str(<<"r">>), Undefined, Undefined),
      Body(Str(<<"g","r","a","t","i","t","u","d","e">>), Str(<<"b">>), Undefined,
           Str(<<"g","1">>), Undefined),
      Body(Str(<<"c","r","e","a","t","i","v","e">>), Str(<<"b">>), Undefined, Undefined,
           Undefined) }

InitTitle ==
    /\ users = [u \in {"u1"} |-> [passcodeHash |-> Argon2Hash(<<"1","2","3","4">>, 0)]]
    /\ cookie = [c \in Clients |-> IF c = "c1" THEN SessionToken("u1") ELSE NoCookie]
    /\ entries = <<>>
    /\ counters \in [EntryTypes -> TitleCounters]
    /\ gratitudePrompts =
         [id \in SeedPromptIds |->
             [isActive |-> TRUE, createdAt |-> SeedIndex(GRATITUDE_PROMPTS, id)]]
    /\ personas =
         [id \in SeedPersonaIds |->
             [isActive |-> TRUE, order |-> SeedIndex(CREATIVE_PERSONAS, id) - 1,
              createdAt |-> SeedIndex(CREATIVE_PERSONAS, id)]]
    /\ creativePrompts = <<>>
    /\ ollamaCalls = 0
    /\ req = [r \in 1..MaxTitleReq |-> Idle]
    /\ seed = SeedIdle

NextTitle ==
    \/ \E r \in 1..MaxTitleReq, body \in TitleBodies : PostEntriesBegin(r, "c1", body)
    \/ \E r \in 1..MaxTitleReq : PostEntriesPersist(r)

SpecTitle == InitTitle /\ [][NextTitle]_vars

\* The number of digits of the decimal numeral of n.
RECURSIVE DecimalWidth(_)
DecimalWidth(n) == IF n < 10 THEN 1 ELSE 1 + DecimalWidth(n \div 10)

Larger(a, b) == IF a >= b THEN a ELSE b

\* title is the tag of entryType, a space, and the decimal numeral of n with
\* zeros in front up to three digits, no digit of n lost.
WellFormedTitle(title, entryType, n) ==
    /\ Len(title) = 2 + Larger(3, DecimalWidth(n))
    /\ title[1] = ENTRY_EMOJI(entryType)
    /\ title[2] = " "
    /\ \A i \in 3..Len(title) : \E d \in 1..10 : title[i] = DigitChars[d]
    /\ TitleNumber(title) = n
    /\ n = 7 => SubSeq(title, 3, Len(title)) = <<"0","0","7">>
    /\ n = 1000 => SubSeq(title, 3, Len(title)) = <<"1","0","0","0">>

\* A step in which nextEntryTitle hands request r its title.
TitleIssued(r) == req[r].pc = "idle" /\ req'[r].pc = "persist"

\* C26: the title nextEntryTitle returns is the tag of the category, a space
\* and the new counter value in decimal, padded with zeros to three digits and
\* never cut (7 gives 007, 1000 gives 1000); the new value is 1 for a category
\* with no counter row or a counter of zero; and two titles of one category
\* that carry distinct counter values are distinct.
C26_TitleStep ==
    \A r \in DOMAIN req :
        TitleIssued(r) =>
            LET entryType == req'[r].data.entryType
                n == counters'[entryType]
            IN /\ n = CounterValue(entryType) + 1
               /\ WellFormedTitle(req'[r].title, entryType, n)
               /\ CounterValue(entryType) = 0 =>
                     SubSeq(req'[r].title, 3, 5) = <<"0","0","1">>
               /\ \A q \in Titled :
                     req[q].data.entryType = entryType
                         => /\ TitleNumber(req[q].title) # n
                            /\ req[q].title # req'[r].title

C26_TitleFormat == [][C26_TitleStep]_vars

\* Three creations hold the titles 001 (the first of its category), 007 and
\* 1000.
C26_Witness ==
    \E r1, r2, r3 \in Titled :
        /\ SubSeq(req[r1].title, 3, Len(req[r1].title)) = <<"0","0","1">>
        /\ SubSeq(req[r2].title, 3, Len(req[r2].title)) = <<"0","0","7">>
        /\ SubSeq(req[r3].title, 3, Len(req[r3].title)) = <<"1","0","0","0">>

-----------------------------------------------------------------------------
\* app/page.tsx: the component PasscodeGate.  A mounted form is a slot of req;
\* its fields are the component's state, its prop hasPasscode, and counts of
\* the calls it made of fetch and of its props onAuthenticated and
\* refetchStatus.

Message(text) == Str(<<text>>)

\* Faulty variant of Response.ok: every response counts as a success.
ResponseOkAlways(status) == TRUE

\* Response.ok
ResponseOk(status) == status >= 200 /\ status <= 299

\* What the fetch of handleSubmit settles with: a rejection, or a response
\* with its status and the error member of its JSON body (undefined when the
\* body has none or is no JSON, which response.json().catch turns into {}).
FetchOutcomes ==
    { [t |-> "rejected", message |-> Message("Failed to fetch")],
      [t |-> "response", status |-> 200, error |-> Undefined],
      [t |-> "response", status |-> 401, error |-> Message("Incorrect passcode.")],
      [t |-> "response", status |-> 409, error |-> Message("Passcode already set.")],
      [t |-> "response", status |-> 429, error |-> Undefined],
      [t |-> "response", status |-> 500, error |-> Undefined] }

\* What refetchStatus settles with: the parent's hasPasscode afterwards, or a
\* rejection.
RefetchOutcomes ==
    { [t |-> "resolved", hasPasscode |-> TRUE],
      [t |-> "resolved", hasPasscode |-> FALSE],
      [t |-> "rejected", message |-> Message("Unable to check session.")] }

\* What is typed into the two inputs.
TypedPasscodes == { <<>>, <<"2","4","6","8">>, <<"2","4">> }

\* The component after its first render and effect.
MountedGate(hasPasscode) ==
    [ op |-> "passcodeGate", pc |-> "form",
      hasPasscode |-> hasPasscode,
      passcode |-> <<>>, confirmPasscode |-> <<>>,
      mode |-> IF hasPasscode THEN "verify" ELSE "set",
      submitting |-> FALSE, error |-> Null, successMessage |-> Null,
      submits |-> 0, fetchCalls |-> 0, endpoint |-> Null, sent |-> Null,
      outcome |-> Null, authenticatedCalls |-> 0, refetchCalls |-> 0 ]

Gates == { r \in DOMAIN req : req[r].op = "passcodeGate" }

\* onChange of the passcode input.
GateSetPasscode(r, value) ==
    /\ r \in Gates
    /\ req[r].passcode # value
    /\ req' = [req EXCEPT ![r].passcode = value]
    /\ UNCHANGED <<users, counters, entries, gratitudePrompts, personas,
                   creativePrompts, ollamaCalls, cookie, seed>>

\* onChange of the confirmation input, rendered while hasPasscode is false.
GateSetConfirmPasscode(r, value) ==
    /\ r \in Gates
    /\ ~req[r].hasPasscode
    /\ req[r].confirmPasscode # value
    /\ req' = [req EXCEPT ![r].confirmPasscode = value]
    /\ UNCHANGED <<users, counters, entries, gratitudePrompts, personas,
                   creativePrompts, ollamaCalls, cookie, seed>>

\* handleSubmit up to its first await: the two checks of the inputs, then the
\* call of fetch.  The submit button is disabled while submitting.
GateSubmit(r) ==
    /\ r \in Gates
    /\ req[r].pc = "form"
    /\ ~req[r].submitting
    /\ req[r].submits < MaxSubmits
    /\ LET g == [req[r] EXCEPT !.error = Null, !.successMessage = Null,
                               !.submits = @ + 1]
       IN IF g.passcode = <<>>
          THEN req' = [req EXCEPT ![r] =
                  [g EXCEPT !.error = Message("Enter your passcode.")]]
          ELSE IF g.mode = "set" /\ g.passcode # g.confirmPasscode
          THEN req' = [req EXCEPT ![r] =
                  [g EXCEPT !.error = Message("Passcodes must match.")]]
          ELSE req' = [req EXCEPT ![r] =
                  [g EXCEPT !.submitting = TRUE,
                            !.pc = "fetch",
                            !.fetchCalls = @ + 1,
                            !.endpoint = IF g.mode = "set"
                                         THEN Message("/api/auth/set")
                                         ELSE Message("/api/auth/verify"),
                            !.sent = Str(g.passcode)]]
    /\ UNCHANGED <<users, counters, entries, gratitudePrompts, personas,
                   creativePrompts, ollamaCalls, cookie, seed>>

\* handleSubmit from the settling of fetch to its return or to the await of
\* refetchStatus.
GateFetchSettled(r, outcome) ==
    /\ r \in Gates
    /\ req[r].pc = "fetch"
    /\ LET g == [req[r] EXCEPT !.outcome = outcome]
       IN IF outcome.t = "rejected"
          THEN req' = [req EXCEPT ![r] =
                  [g EXCEPT !.error = outcome.message,
                            !.submitting = FALSE, !.pc = "form"]]
          ELSE IF ~ResponseOk(outcome.status)
          THEN LET shown == IF outcome.error \in {Undefined, Null}
                            THEN Message("Unable to process passcode.")
                            ELSE outcome.error
               IN IF outcome.status = 409
                  THEN req' = [req EXCEPT ![r] =
                          [g EXCEPT !.error = shown,
                                    !.refetchCalls = @ + 1,
                                    !.pc = "refetch"]]
                  ELSE req' = [req EXCEPT ![r] =
                          [g EXCEPT !.error = shown,
                                    !.submitting = FALSE, !.pc = "form"]]
          ELSE req' = [req EXCEPT ![r] =
                  [g EXCEPT !.successMessage = Message("Session unlocked."),
                            !.passcode = <<>>,
                            !.confirmPasscode = <<>>,
                            !.authenticatedCalls = @ + 1,
                            !.submitting = FALSE, !.pc = "form"]]
    /\ UNCHANGED <<users, counters, entries, gratitudePrompts, personas,
                   creativePrompts, ollamaCalls, cookie, seed>>

\* handleSubmit from the settling of refetchStatus to its end; the parent
\* renders the form with the hasPasscode of the status, and the effect on
\* hasPasscode sets the mode.
GateRefetchSettled(r, outcome) ==
    /\ r \in Gates
    /\ req[r].pc = "refetch"
    /\ IF outcome.t = "rejected"
       THEN req' = [req EXCEPT ![r].error = outcome.message,
                               ![r].submitting = FALSE, ![r].pc = "form"]
       ELSE req' = [req EXCEPT ![r].hasPasscode = outcome.hasPasscode,
                               ![r].mode = IF outcome.hasPasscode THEN "verify" ELSE "set",
                               ![r].submitting = FALSE, ![r].pc = "form"]
    /\ UNCHANGED <<users, counters, entries, gratitudePrompts, personas,
                   creativePrompts, ollamaCalls, cookie, seed>>

-----------------------------------------------------------------------------
\* Specification SpecForm: a passcode form under every typing, every
\* submission and every answer of the server.

InitForm ==
    /\ users = <<>>
    /\ cookie = [c \in Clients |-> NoCookie]
    /\ entries = <<>>
    /\ counters = [e \in EntryTypes |-> 0]
    /\ gratitudePrompts = <<>>
    /\ personas = <<>>
    /\ creativePrompts = <<>>
    /\ ollamaCalls = 0
    /\ \E hasPasscode \in BOOLEAN :
          req = <<MountedGate(hasPasscode)>>
    /\ seed = SeedIdle

NextForm ==
    \/ \E r \in DOMAIN req, value \in TypedPasscodes : GateSetPasscode(r, value)
    \/ \E r \in DOMAIN req, value \in TypedPasscodes : GateSetConfirmPasscode(r, value)
    \/ \E r \in DOMAIN req : GateSubmit(r)
    \/ \E r \in DOMAIN req, outcome \in FetchOutcomes : GateFetchSettled(r, outcome)
    \/ \E r \in DOMAIN req, outcome \in RefetchOutcomes : GateRefetchSettled(r, outcome)

SpecForm == InitForm /\ [][NextForm]_vars

\* A step in which the form of r is submitted.
Submitted(r) == req'[r].submits = req[r].submits + 1

\* The inputs of r are refused by the form: no passcode, or, when a passcode
\* is being set, a confirmation that differs from it.
RefusedInputs(r) ==
    \/ req[r].passcode = <<>>
    \/ req[r].mode = "set" /\ req[r].passcode # req[r].confirmPasscode

\* A step in which the request of r is answered.
Answered(r) == req[r].pc = "fetch" /\ req'[r].pc # "fetch"

SuccessResponse(outcome) ==
    outcome.t = "response" /\ outcome.status \in 200..299

\* C27: a form submitted with no passcode, or in set mode with a confirmation
\* that differs, sends no request and does not call onAuthenticated;
\* onAuthenticated is called only by the step that receives a success
\* response of the set or verify request; a failed response or a failed
\* request leaves onAuthenticated uncalled, and refetchStatus is called on a
\* 409 and on nothing else.
C27_GateStep ==
    \A r \in Gates :
        /\ (Submitted(r) /\ RefusedInputs(r)) =>
              /\ req'[r].fetchCalls = req[r].fetchCalls
              /\ req'[r].authenticatedCalls = req[r].authenticatedCalls
              /\ req'[r].pc = "form"
              /\ req'[r].error # Null
        /\ (Submitted(r) /\ ~RefusedInputs(r)) =>
              /\ req'[r].fetchCalls = req[r].fetchCalls + 1
              /\ req'[r].authenticatedCalls = req[r].authenticatedCalls
              /\ req'[r].endpoint =
                    IF req[r].hasPasscode THEN Message("/api/auth/verify")
                    ELSE Message("/api/auth/set")
              /\ req'[r].sent = Str(req[r].passcode)
        /\ req'[r].authenticatedCalls # req[r].authenticatedCalls =>
              /\ Answered(r)
              /\ SuccessResponse(req'[r].outcome)
              /\ req'[r].authenticatedCalls = req[r].authenticatedCalls + 1
        /\ (Answered(r) /\ ~SuccessResponse(req'[r].outcome)) =>
              /\ req'[r].authenticatedCalls = req[r].authenticatedCalls
              /\ req'[r].successMessage = Null
              /\ req'[r].error # Null
        /\ req'[r].refetchCalls # req[r].refetchCalls =>
              /\ Answered(r)
              /\ req'[r].outcome.t = "response" /\ req'[r].outcome.status = 409
        /\ (Answered(r) /\ req'[r].outcome.t = "response"
                /\ req'[r].outcome.status = 409) =>
              req'[r].refetchCalls = req[r].refetchCalls + 1

C27_GateCallsBack == [][C27_GateStep]_vars

\* A form was refused for its inputs, then answered 409 and re-fetched the
\* status, then answered with a success and called onAuthenticated once.
C27_Witness ==
    \E r \in Gates :
        /\ req[r].submits = 3
        /\ req[r].fetchCalls = 2
        /\ req[r].refetchCalls = 1
        /\ req[r].authenticatedCalls = 1
        /\ req[r].pc = "form"

\* C28: whatever toggles run between the two queries of a pick, the pick
\* answers 200 with a prompt that was active when findFirst selected it, or
\* 404; it never fails otherwise and never returns an inactive prompt.
C28_PickUnderToggles ==
    \A r \in Picks :
        /\ req[r].status \in {200, 404}
        /\ req[r].status = 200 =>
              /\ req[r].prompt # Null
              /\ req[r].prompt.v \in req[r].activeAtPick
        /\ req[r].status = 404 => req[r].prompt = Null

-----------------------------------------------------------------------------
\* Specification SpecOwner: two users, each with a session, create entries
\* and read them by page and by id.

\* Bodies of creation requests: with no member naming an owner, and with a
\* userId member naming the second user.
OwnerBodies ==
    LET body == Body(Str(<<"a","n","g","e","r">>), Str(<<"b">>), Str(<<"r">>),
                     Undefined, Undefined)
    IN { body, body @@ [userId |-> Str(<<"u2">>)] }

OwnerEntryIds == { 1 }

InitOwner ==
    /\ users = [u \in {"u1", "u2"} |-> [passcodeHash |-> Argon2Hash(<<"1","2","3","4">>, 0)]]
    /\ cookie = [c \in Clients |-> SessionToken(IF c = "c1" THEN "u1" ELSE "u2")]
    /\ entries = <<>>
    /\ counters = [e \in EntryTypes |-> 0]
    /\ gratitudePrompts =
         [id \in SeedPromptIds |->
             [isActive |-> TRUE, createdAt |-> SeedIndex(GRATITUDE_PROMPTS, id)]]
    /\ personas =
         [id \in SeedPersonaIds |->
             [isActive |-> TRUE, order |-> SeedIndex(CREATIVE_PERSONAS, id) - 1,
              createdAt |-> SeedIndex(CREATIVE_PERSONAS, id)]]
    /\ creativePrompts = <<>>
    /\ ollamaCalls = 0
    /\ req = [r \in 1..MaxOwnerReq |-> Idle]
    /\ seed = SeedIdle

NextOwner ==
    \/ \E r \in 1..MaxOwnerReq, c \in Clients, body \in OwnerBodies :
         PostEntriesBegin(r, c, body)
    \/ \E r \in 1..MaxOwnerReq : PostEntriesPersist(r)
    \/ \E r \in 1..MaxOwnerReq, c \in Clients, id \in OwnerEntryIds :
         GetEntryById(r, c, id)
    \/ \E r \in 1..MaxOwnerReq, c \in Clients : GetEntriesBegin(r, c, Null, Null)
    \/ \E r \in 1..MaxOwnerReq : GetEntriesFinish(r)

SpecOwner == InitOwner /\ [][NextOwner]_vars

\* The user the session token of request r was signed for.
SessionOwner(r) == req[r].cookie.sub

\* A step in which the creation request r stores its entry.
Persisted(r) ==
    /\ req[r].op = "createEntry" /\ req[r].pc = "persist"
    /\ req'[r].pc = "done" /\ req'[r].status = 201

\* The rows stored before the step are the same rows after it, and a row the
\* step adds is the entry of a request that stores it, owned by the user of
\* that request's session.
OwnerStep ==
    /\ Len(entries') >= Len(entries)
    /\ SubSeq(entries', 1, Len(entries)) = entries
    /\ Len(entries') # Len(entries) =>
          /\ Len(entries') = Len(entries) + 1
          /\ \E r \in DOMAIN req :
                /\ Persisted(r)
                /\ entries'[Len(entries')].userId = SessionOwner(r)
                /\ entries'[Len(entries')].title = req[r].title

\* What the finished reads returned belongs to the user of their session.
ReadsOwnOnly ==
    /\ \A r \in ListRequests :
          /\ \A k \in 1..Len(req[r].rows) : req[r].rows[k].userId = SessionOwner(r)
          /\ req[r].total <= Cardinality(OwnedBy(SessionOwner(r)))
    /\ \A r \in GetRequests :
          req[r].status = 200 => req[r].entry.userId = SessionOwner(r)

\* C29: every stored entry is owned by the user of the verified session of
\* the request that created it, whatever the body of that request holds, and
\* its owner never changes; the list and the read by id return only entries
\* owned by the user of the caller's session.
C29_OwnedBySessionUser == [][OwnerStep]_vars /\ []ReadsOwnOnly

\* The first user stored an entry with a body naming the second user as
\* owner and owns it; the second user stored one too and then listed a single
\* entry, its own.
C29_Witness ==
    /\ Len(entries) = 2
    /\ \E r1, r2, r3 \in DOMAIN req :
          /\ req[r1].op = "createEntry" /\ req[r1].status = 201
          /\ SessionOwner(r1) = "u1"
          /\ "userId" \in DOMAIN req[r1].body
          /\ req[r1].body.userId = Str(<<"u2">>)
          /\ \E i \in OwnedBy("u1") : entries[i].title = req[r1].title
          /\ req[r2].op = "createEntry" /\ req[r2].status = 201
          /\ SessionOwner(r2) = "u2"
          /\ r3 \in ListRequests
          /\ SessionOwner(r3) = "u2"
          /\ Len(req[r3].rows) = 1 /\ req[r3].total = 1
          /\ req[r3].rows[1].userId = "u2"

-----------------------------------------------------------------------------
\* app/page.tsx: the component HistoryPreview.  The component is a slot of
\* req; its fields are its state, its prop refreshKey, and the history
\* requests it has sent that are not settled yet, in the order it sent them.

\* The rows of a page of the archive; page 0 stands for the empty list the
\* component starts with.
RowsOfPage(page) == [t |-> "rows", page |-> page]

\* What a history request settles with: the page of entries with its meta
\* (meta.page is the page asked for), a response with status 401, or a
\* response with another status or a rejection.
HistoryOutcomes == { "ok", "unauthorized", "failed" }

\* The component after its first render and its effects: setCurrentPage(1)
\* changes nothing, fetchHistory(1) is sent.
MountedHistory ==
    [ op |-> "historyPreview", pc |-> "rendered",
      refreshKey |-> 0, currentPage |-> 1,
      entries |-> RowsOfPage(0), meta |-> Null,
      loading |-> TRUE, error |-> Null,
      inflight |-> <<1>>, fetches |-> 1 ]

Histories == { r \in DOMAIN req : req[r].op = "historyPreview" }

\* fetchHistory(pageToLoad) up to its await of fetch.
FetchHistory(h, pageToLoad) ==
    [h EXCEPT !.loading = TRUE, !.error = Null,
              !.inflight = Append(@, pageToLoad), !.fetches = @ + 1]

\* totalPages of the render.
TotalPages(h) == IF h.meta # Null /\ h.meta.totalPages > 1 THEN h.meta.totalPages ELSE 1

\* onEntrySaved: the parent raises refreshKey.  The effects of the render
\* with the new key run in their order: setCurrentPage(1), then
\* fetchHistory(currentPage) with the page of that render.  When the page was
\* not 1 the component renders again with page 1, and the second effect
\* sends fetchHistory(1).
HistoryEntrySaved(r) ==
    /\ r \in Histories
    /\ req[r].fetches + (IF req[r].currentPage = 1 THEN 1 ELSE 2) <= MaxFetches
    /\ LET keyed == [req[r] EXCEPT !.refreshKey = @ + 1]
           first == FetchHistory(keyed, keyed.currentPage)
       IN req' = [req EXCEPT ![r] =
             IF keyed.currentPage = 1 THEN first
             ELSE FetchHistory([first EXCEPT !.currentPage = 1], 1)]
    /\ UNCHANGED <<users, counters, entries, gratitudePrompts, personas,
                   creativePrompts, ollamaCalls, cookie, seed>>

\* The buttons Previous and Next, enabled by canGoPrev and canGoNext: the
\* page changes and the second effect sends fetchHistory of the new page.
HistoryTurnPage(r, step) ==
    /\ r \in Histories
    /\ req[r].fetches < MaxFetches
    /\ ~req[r].loading
    /\ \/ step = -1 /\ req[r].currentPage > 1
       \/ step = 1 /\ req[r].currentPage < TotalPages(req[r])
    /\ req' = [req EXCEPT ![r] =
          FetchHistory([req[r] EXCEPT !.currentPage = @ + step],
                       req[r].currentPage + step)]
    /\ UNCHANGED <<users, counters, entries, gratitudePrompts, personas,
                   creativePrompts, ollamaCalls, cookie, seed>>

\* The button Refresh, enabled while nothing is loading.
HistoryRefresh(r) ==
    /\ r \in Histories
    /\ req[r].fetches < MaxFetches
    /\ ~req[r].loading
    /\ req' = [req EXCEPT ![r] = FetchHistory(req[r], req[r].currentPage)]
    /\ UNCHANGED <<users, counters, entries, gratitudePrompts, personas,
                   creativePrompts, ollamaCalls, cookie, seed>>

Without(seq, i) == SubSeq(seq, 1, i - 1) \o SubSeq(seq, i + 1, Len(seq))

\* fetchHistory from the settling of its fetch to its end, for the request
\* at position i of those in flight.
HistorySettled(r, i, outcome) ==
    /\ r \in Histories
    /\ i \in 1..Len(req[r].inflight)
    /\ LET h == [req[r] EXCEPT !.inflight = Without(@, i), !.loading = FALSE]
           pageToLoad == req[r].inflight[i]
       IN req' = [req EXCEPT ![r] =
             CASE outcome = "ok" ->
                    [h EXCEPT !.entries = RowsOfPage(pageToLoad),
                              !.meta = [page |-> pageToLoad,
                                        totalPages |-> MaxHistoryPages]]
               [] outcome = "unauthorized" ->
                    [h EXCEPT !.entries = RowsOfPage(0),
                              !.meta = Null,
                              !.error = Message("Unlock your journal to view history.")]
               [] OTHER ->
                    [h EXCEPT !.error = Message("Unable to load entries.")]]
    /\ UNCHANGED <<users, counters, entries, gratitudePrompts, personas,
                   creativePrompts, ollamaCalls, cookie, seed>>

-----------------------------------------------------------------------------
\* Specification SpecHistory: the history preview under page turns, saved
\* entries, refreshes, and responses that arrive in any order.

InitHistory ==
    /\ users = <<>>
    /\ cookie = [c \in Clients |-> NoCookie]
    /\ entries = <<>>
    /\ counters = [e \in EntryTypes |-> 0]
    /\ gratitudePrompts = <<>>
    /\ personas = <<>>
    /\ creativePrompts = <<>>
    /\ ollamaCalls = 0
    /\ req = <<MountedHistory>>
    /\ seed = SeedIdle

NextHistory ==
    \/ \E r \in DOMAIN req : HistoryEntrySaved(r)
    \/ \E r \in DOMAIN req, step \in {-1, 1} : HistoryTurnPage(r, step)
    \/ \E r \in DOMAIN req : HistoryRefresh(r)
    \/ \E r \in DOMAIN req, i \in 1..MaxFetches, outcome \in HistoryOutcomes :
         HistorySettled(r, i, outcome)

SpecHistory == InitHistory /\ [][NextHistory]_vars

\* No history request of r is in flight, and the last one to settle brought
\* a page.
Settled(r) ==
    /\ req[r].inflight = <<>>
    /\ req[r].error = Null
    /\ req[r].meta # Null

\* C30: once every history request in flight has settled, the entries and
\* the meta on display are those of the response for currentPage; after an
\* entry was saved while a later page was shown, that is page 1, whichever of
\* the responses came last.
C30_ShowsCurrentPage ==
    \A r \in Histories :
        Settled(r) =>
            /\ req[r].meta.page = req[r].currentPage
            /\ req[r].entries = RowsOfPage(req[r].currentPage)

====
